---------------------------- MODULE Spec2Model ----------------------------
(***************************************************************************)
(* A model of the job objects of quri-parts-oqtopus: OqtopusJobBase        *)
(* (refresh, wait_for_completion, cancel), the result() methods of         *)
(* OqtopusSamplingJob and OqtopusEstimationJob, and the decoding of the    *)
(* sampling result payload.                                                *)
(*                                                                         *)
(* Spec        the life cycle of one job object against a remote service   *)
(*             that may answer anything at any time.                       *)
(* FairSpec    Spec with the fairness of a running client: the clock       *)
(*             advances and a started call is carried on.                  *)
(* SpecDecode  the result decoding applied to bounded payloads.            *)
(* SpecResult  the OqtopusSamplingResult constructor on bounded payloads.  *)
(* SpecSubmit  one submission through a backend.                           *)
(* SpecStorage one upload, then one download, through OqtopusStorage.      *)
(* SpecRetrieve one submission through the sampling backend, then one      *)
(*             retrieve_job.                                               *)
(***************************************************************************)
EXTENDS Integers, Sequences, FiniteSets, TLC

VARIABLES
    job,            \* self._job: the record the job object holds
    kind,           \* the class of the job object: "sampling" or "estimation"
    pc,             \* where the client is: "idle", "check" (line 260), "sleep" (line 267)
    call,           \* the call in progress: its name, timeout and wait
    elapsed_time,   \* time.time() - start_time, saturated at MaxElapsed
    slept,          \* time spent in the current time.sleep, saturated at call.wait
    ret,            \* how the last call ended
    fetched,        \* the answer to the most recent get_job request of the call
    reqs,           \* the requests the current call has sent, oldest first
    naps,           \* the time.sleep calls the current call has made, up to MaxReqs
    payload,        \* SpecDecode: the sampling payload being decoded
    decoded,        \* SpecDecode: what decoding it gave
    sub_pc,         \* SpecSubmit: where a submission is: "idle", "submit", "get", "sse", "done"
    sub_call,       \* SpecSubmit: the arguments of the call and the request body built
    sub_reqs,       \* SpecSubmit: the calls made to the service or the executor, in order
    sub_ret,        \* SpecSubmit: how the last submission ended
    retrieved,      \* SpecRetrieve: the retrieve_job call made, its response and how it ended
    st_pc,          \* SpecStorage: where a storage call is: "idle", "post", "get", "done"
    st_call,        \* SpecStorage: the arguments of the call and the response it got
    st_reqs,        \* SpecStorage: the HTTP requests sent, in order
    st_ret          \* SpecStorage: how the last storage call ended

submitVars == <<sub_pc, sub_call, sub_reqs, sub_ret, retrieved>>
storageVars == <<st_pc, st_call, st_reqs, st_ret>>

vars == <<job, kind, pc, call, elapsed_time, slept, ret, fetched, reqs, naps,
          payload, decoded, submitVars, storageVars>>

(***************************************************************************)
(* Bounds.                                                                 *)
(***************************************************************************)
MaxTimeout == 2     \* timeouts are 0..MaxTimeout seconds, or None
MaxWait == 1        \* waits are 0..MaxWait seconds
MaxReqs == 3        \* the request log keeps the first MaxReqs requests of a call
MaxBits == 2        \* bit-string keys have 1..MaxBits characters
MaxEntries == 2     \* a counts mapping has at most MaxEntries entries
MaxPrograms == 2    \* a list of programs has at most MaxPrograms texts
MaxTerms == 2       \* an operator has at most MaxTerms terms

Max(a, b) == IF a >= b THEN a ELSE b
Min(a, b) == IF a <= b THEN a ELSE b

\* elapsed times beyond every timeout and every wait are not told apart
MaxElapsed == Max(MaxTimeout, MaxWait) + 1

(***************************************************************************)
(* Python values.  A str is a sequence of characters; the characters that  *)
(* matter here are the digits 0, 1 and 2.  A dict is the sequence of its   *)
(* items in insertion order, with distinct keys.  A dict key is a str or   *)
(* an int.                                                                 *)
(***************************************************************************)
StrKey(s) == [is_str |-> TRUE, chars |-> s, num |-> 0]
IntKey(n) == [is_str |-> FALSE, chars |-> <<>>, num |-> n]
Item(k, c) == [key |-> k, count |-> c]

\* the value of an expression, worked out once
Only(S) == CHOOSE x \in S : TRUE

\* the dict built by inserting the items in order: a key stands where it was
\* first inserted and holds the value inserted last
DictOfItems(items) ==
    LET n == Len(items)
        first == {i \in 1..n : \A j \in 1..(i - 1) : items[j].key # items[i].key}
        last(k) == CHOOSE i \in 1..n :
                     items[i].key = k /\ \A j \in (i + 1)..n : items[j].key # k
        nth(r) == CHOOSE i \in first : Cardinality({j \in first : j < i}) = r - 1
    IN  [r \in 1..Cardinality(first) |->
            Item(items[nth(r)].key, items[last(items[nth(r)].key)].count)]
DictOf(items) == Only({DictOfItems(v) : v \in {items}})

\* json.loads of the text of a JSON object, given as the list of its members:
\* member names are strings and a repeated name keeps its last value
json_loads(members) == DictOf(members)

RECURSIVE ParseDigits(_, _, _)
\* the value of the first n digits of s in the base
ParseDigits(s, base, n) ==
    IF n = 0 THEN 0 ELSE ParseDigits(s, base, n - 1) * base + s[n]

\* int(s, base) raises ValueError on an empty string or a digit >= base
ParseOk(s, base) == s # <<>> /\ \A i \in 1..Len(s) : s[i] < base
ParseInt(s, base) == ParseDigits(s, base, Len(s))


(***************************************************************************)
(* The sampling result payload, job_info["result"]["sampling"]:            *)
(*   has_counts       whether the key "counts" is there                    *)
(*   counts_is_str    whether counts came as a JSON-encoded string         *)
(*   counts           the items of the mapping, or the members of the      *)
(*                    JSON object when counts_is_str                       *)
(*   divided_is_str, divided_counts                                        *)
(*                    the same for the per-sub-circuit breakdown: a list   *)
(*                    of [index, items]; empty when absent, None or {}     *)
(***************************************************************************)
EmptyFn == [x \in {} |-> 0]

DictKeys(d) == {d[i].key : i \in 1..Len(d)}
DictGet(d, k) == d[CHOOSE i \in 1..Len(d) : d[i].key = k].count
\* a dict as a function of its keys: what Counter(d) compares equal to
Counter(d) == Only({[k \in DictKeys(v) |-> DictGet(v, k)] : v \in {d}})

\* sampling.py line 148 (and 157): int(bits, 2) if isinstance(bits, str) else bits
DecodeBitsOk(bits) == bits.is_str => ParseOk(bits.chars, 2)
DecodeBitsBase10(bits) == IF bits.is_str THEN ParseInt(bits.chars, 10) ELSE bits.num
DecodeBits(bits) == IF bits.is_str THEN ParseInt(bits.chars, 2) ELSE bits.num

\* sampling.py line 156: int(index)
DecodeIndexOk(index) == index.is_str => ParseOk(index.chars, 10)
DecodeIndex(index) == IF index.is_str THEN ParseInt(index.chars, 10) ELSE index.num

\* sampling.py lines 147-150: the dict comprehension over counts.items()
DecodeItemsOk(items) == \A i \in 1..Len(items) : DecodeBitsOk(items[i].key)
DecodeItems(items) ==
    DictOf([i \in 1..Len(items) |-> Item(DecodeBits(items[i].key), items[i].count)])

\* sampling.py lines 145-146: counts is parsed when it is a str
LoadCounts(p) == IF p.counts_is_str THEN json_loads(p.counts) ELSE p.counts

\* sampling.py lines 153-154: divided_counts is parsed when it is a str; the
\* members of the outer object are deduplicated, and so are those of each inner one
LoadDivided(p) ==
    IF p.divided_is_str
    THEN LET outer == DictOf([i \in 1..Len(p.divided_counts) |->
                              Item(p.divided_counts[i].index, p.divided_counts[i].items)])
         IN  [i \in 1..Len(outer) |-> [index |-> outer[i].key,
                                       items |-> json_loads(outer[i].count)]]
    ELSE p.divided_counts

\* sampling.py lines 155-161: the outer comprehension over divided_counts
DecodeDividedOk(div) ==
    \A i \in 1..Len(div) : DecodeIndexOk(div[i].index) /\ DecodeItemsOk(div[i].items)
DecodeDivided(div) ==
    DictOf([i \in 1..Len(div) |->
            Item(DecodeIndex(div[i].index), Counter(DecodeItems(div[i].items)))])

Failure(e) == [err |-> e, counts |-> EmptyFn, has_divided |-> FALSE,
               divided_counts |-> EmptyFn]

\* sampling.py lines 57-74: OqtopusSamplingResult.__init__ on the edited payload;
\* int(bits) of an int is that int, so the counters are kept as they are
OqtopusSamplingResult(counts, has_divided, divided) ==
    [err |-> "", counts |-> Counter(counts), has_divided |-> has_divided,
     divided_counts |-> IF has_divided THEN Counter(divided) ELSE EmptyFn]

\* sampling.py lines 147-163: the decoding of counts and div, both parsed
DecodeLoaded(counts, div) ==
    IF ~DecodeItemsOk(counts) THEN Failure("ValueError")
    ELSE IF div = <<>> THEN OqtopusSamplingResult(DecodeItems(counts), FALSE, <<>>)
    ELSE IF ~DecodeDividedOk(div) THEN Failure("ValueError")
    ELSE OqtopusSamplingResult(DecodeItems(counts), TRUE, DecodeDivided(div))

\* sampling.py lines 143-163: the decoding in OqtopusSamplingJob.result
SamplingDecode(p) ==
    IF ~p.has_counts THEN Failure("KeyError")
    ELSE Only({DecodeLoaded(counts, div) : counts \in {LoadCounts(p)}, div \in {LoadDivided(p)}})

\* sampling.py lines 57-74: OqtopusSamplingResult(result) called on a payload as
\* it is given, counts and divided_counts being dicts: the check of "counts",
\* Counter(result.get("counts")) with the keys as they are, and for each index
\* of divided_counts, kept as it is, the Counter of its items under int(bits)
SamplingResultInitNoCheck(result) ==
    [msg |-> "",
     value |-> OqtopusSamplingResult(result.counts, result.divided_counts # <<>>, <<>>)]
SamplingResultInit(result) ==
    IF ~result.has_counts
    THEN [msg |-> "'counts' does not exist in result", value |-> Failure("ValueError")]
    ELSE [msg |-> "",
          value |-> OqtopusSamplingResult(
              result.counts, result.divided_counts # <<>>,
              [i \in 1..Len(result.divided_counts) |->
                 LET items == result.divided_counts[i].items
                 IN  Item(result.divided_counts[i].index,
                          Counter(DictOf([j \in 1..Len(items) |->
                              Item(IF items[j].key.is_str
                                   THEN ParseInt(items[j].key.chars, 10)
                                   ELSE items[j].key.num,
                                   items[j].count)])))])]

(***************************************************************************)
(* Job records (JobsJobDef).  Of the fields the accessors read, the model  *)
(* keeps job_id, status and job_info; job_info stands for every field      *)
(* other than the id and the status.                                       *)
(***************************************************************************)
\* job_base.py line 17 (repeated in sampling.py line 17, estimation.py line 11)
JOB_FINAL_STATUS == {"succeeded", "failed", "cancelled"}
\* a status of the service that is not final, and a string it does not define
NonFinalStatus == {"running", "unknown"}
Statuses == JOB_FINAL_STATUS \cup NonFinalStatus

JobIds == {"job_a", "job_b"}

NoPayload == [has_counts |-> FALSE, counts_is_str |-> FALSE, counts |-> <<>>,
              divided_is_str |-> FALSE, divided_counts |-> <<>>]
\* the payload of the tests: counts {"00": 490, "01": 10, "10": 20, "11": 480}
TestPayload == [has_counts |-> TRUE, counts_is_str |-> FALSE,
                counts |-> <<Item(StrKey(<<0, 0>>), 490), Item(StrKey(<<0, 1>>), 10),
                             Item(StrKey(<<1, 0>>), 20), Item(StrKey(<<1, 1>>), 480)>>,
                divided_is_str |-> FALSE, divided_counts |-> <<>>]
NoEstimation == [has_exp_value |-> FALSE, exp_value |-> 0, has_stds |-> FALSE, stds |-> 0]
\* the payload of estimation.py lines 28-33, in tenths: exp_value 2.0, stds 1.1
TestEstimation == [has_exp_value |-> TRUE, exp_value |-> 20, has_stds |-> TRUE, stds |-> 11]

\* job_info with no result yet, and job_info with the result of a finished job
InfoNoResult == [has_result |-> FALSE, sampling |-> NoPayload, estimation |-> NoEstimation]
InfoResult == [has_result |-> TRUE, sampling |-> TestPayload, estimation |-> TestEstimation]
JobInfos == {InfoNoResult, InfoResult}

Records == [job_id : JobIds, status : Statuses, job_info : JobInfos]
RemoteRecords == [status : Statuses, job_info : JobInfos]
NoJob == [job_id |-> "", status |-> "", job_info |-> InfoNoResult]

\* timeout = None (job_base.py line 242)
NoTimeout == -1
Timeouts == {NoTimeout} \cup 0..MaxTimeout
Waits == 0..MaxWait

(***************************************************************************)
(* The remote service.  A request may fail (transport, authentication,     *)
(* lookup); when it does not, get_job answers with the record the service  *)
(* holds for the id asked for at that moment, which may be any record:     *)
(* every sequence of answers is possible.                                  *)
(***************************************************************************)
\* a request as the log keeps it: the call, the id it carried, whether it went through
Request(api, id, ok) == [api |-> api, job_id |-> id, ok |-> ok]
Log(log, r) == IF Len(log) < MaxReqs THEN Append(log, r) ELSE log

\* what the service may hold when a request goes through; a request that fails
\* reads nothing
Answers(ok) == IF ok THEN RemoteRecords ELSE {[status |-> "", job_info |-> InfoNoResult]}

NotFetched == [state |-> "none", job |-> NoJob]
\* JobApi.get_job(id) as called at job_base.py line 236, against a service that
\* holds r for that id; ok says whether the request went through
get_job(ok, id, r) ==
    IF ok THEN [state |-> "ok",
                job |-> [job_id |-> id, status |-> r.status, job_info |-> r.job_info]]
    ELSE [state |-> "failed", job |-> NoJob]

\* job_base.py line 236 (and line 284): the id the request carries
RequestId(j) == j.job_id

\* job_base.py line 260
IsFinalOrUnknown(status) == status \in JOB_FINAL_STATUS \cup {"unknown"}
IsFinal(status) == status \in JOB_FINAL_STATUS

\* job_base.py lines 283-285: whether cancel() goes on to refresh once the
\* cancel request has, or has not, gone through
CancelRefreshesAlways(okc) == TRUE
CancelRefreshes(okc) == okc

\* job_base.py lines 235-239: self._job after refresh() got answer a
RefreshedJobFrozen(j, a) == IF a.state = "ok" /\ ~IsFinal(j.status) THEN a.job ELSE j
RefreshedJobMerge(j, a) ==
    IF a.state = "ok" THEN [a.job EXCEPT !.job_info = j.job_info] ELSE j
RefreshedJobClear(j, a) == IF a.state = "ok" THEN a.job ELSE NoJob
RefreshedJob(j, a) == IF a.state = "ok" THEN a.job ELSE j

(***************************************************************************)
(* How a call ends.                                                        *)
(***************************************************************************)
NoCall == [op |-> "", timeout |-> NoTimeout, wait |-> 0]
Outcome(op, out, msg) ==
    [op |-> op, out |-> out, msg |-> msg, status |-> "", job |-> NoJob,
     decoded |-> FALSE, sampling |-> Failure(""), estimation |-> NoEstimation,
     timeout |-> NoTimeout, elapsed |-> 0]
Running(op) == Outcome(op, "", "")
BackendError(op, msg) == Outcome(op, "BackendError", msg)

\* job_base.py lines 283-288: how cancel() ends once the cancel request (okc) and
\* the refresh (answer a) have been made
CancelOutcomeIgnoresRefresh(okc, a) ==
    IF okc THEN Outcome("cancel", "ok", "")
    ELSE BackendError("cancel", "To cancel job is failed.")
CancelOutcome(okc, a) ==
    IF okc /\ a.state = "ok" THEN Outcome("cancel", "ok", "")
    ELSE BackendError("cancel", "To cancel job is failed.")

\* job_base.py lines 259-260 and 268: where wait_for_completion goes after a
\* refresh that got answer a: on to the loop test, or out with the exception
PcAfterRefreshRetry(a) == IF a.state = "ok" THEN "check" ELSE "sleep"
PcAfterRefresh(a) == IF a.state = "ok" THEN "check" ELSE "idle"

\* job_base.py line 267: time.sleep(wait) returns once wait seconds have passed
SleepOverAtOnce(waited, wait) == TRUE
SleepOver(waited, wait) == waited >= wait

\* job_base.py lines 262-263
TimedOutEarly(timeout, elapsed) == timeout # NoTimeout /\ elapsed + 1 >= timeout
TimedOutLate(timeout, elapsed) == timeout # NoTimeout /\ elapsed > timeout
TimedOutWithNone(timeout, elapsed) == elapsed >= timeout
TimedOut(timeout, elapsed) == timeout # NoTimeout /\ elapsed >= timeout

\* sampling.py lines 139-141, estimation.py lines 109-111
EndedBadlyFailedOnly(status) == status = "failed"
EndedBadly(status) == status \in {"failed", "cancelled"}

\* sampling.py lines 143-163, estimation.py lines 113-116: the value result() returns
\* for record j, or the error decoding it raises
Decoded(op, j, k) ==
    IF ~j.job_info.has_result
    THEN [Outcome(op, "TypeError", "") EXCEPT !.decoded = TRUE]
    ELSE IF k = "sampling"
    THEN Only({[Outcome(op, IF r.err = "" THEN "result" ELSE r.err, "")
                   EXCEPT !.decoded = TRUE, !.sampling = r] :
               r \in {SamplingDecode(j.job_info.sampling)}})
    ELSE [Outcome(op, "result", "")
             EXCEPT !.decoded = TRUE, !.estimation = j.job_info.estimation]

\* sampling.py lines 139-163, estimation.py lines 109-116: result() once the
\* job object holds record j
ResultTailNoCheck(op, j, k) == Decoded(op, j, k)
ResultTail(op, j, k) ==
    IF EndedBadly(j.status)
    THEN [BackendError(op, "Job ended with status") EXCEPT !.status = j.status]
    ELSE Decoded(op, j, k)

\* job_base.py line 270 and sampling.py lines 134-138: what the call makes of
\* wait_for_completion returning record j
ReturnedJob(op, j, k) ==
    IF op = "result" THEN ResultTail(op, j, k)
    ELSE [Outcome(op, "job", "") EXCEPT !.job = j]

\* job_base.py line 264 and sampling.py lines 135-137: what the call makes of
\* wait_for_completion returning None
ReturnedNoneAsResult(op, j, k) ==
    IF op = "result" THEN Decoded(op, j, k) ELSE Outcome(op, "None", "")
ReturnedNone(op, j, k) ==
    IF op = "result" THEN BackendError(op, "Timeout occurred") ELSE Outcome(op, "None", "")


(***************************************************************************)
(* Submission (backend/sampling.py, backend/estimation.py).  A program is   *)
(* one text or a list of texts; a text is the sequence of its lexemes (a    *)
(* lexeme t with the number n it holds).  A coefficient is a real number or *)
(* a complex one; the model keeps its real and imaginary parts as integers. *)
(***************************************************************************)
\* job_type = None
NoJobType == ""
NoProgram == [is_list |-> FALSE, texts |-> <<>>]
NoBody == [job_type |-> "", program |-> NoProgram, shots |-> 0, operator |-> <<>>]
NoSubmitCall ==
    [backend |-> "", entry |-> "", program |-> NoProgram, shots |-> 0,
     job_type |-> NoJobType, operator |-> <<>>, sse |-> FALSE, body |-> NoBody,
     job_id |-> "", response |-> NoJob, circuits |-> NoProgram]
SubmitOutcome(out, msg) == [out |-> out, msg |-> msg, job |-> NoJob, kind |-> ""]

\* backend/sampling.py line 218, backend/estimation.py line 138: not shots >= 1
ShotsOkFromZero(shots) == shots >= 0
ShotsOk(shots) == shots >= 1

\* backend/sampling.py lines 222-226: the job_type of the request
InferJobTypeAlways(program, job_type) ==
    IF program.is_list THEN "multi_manual" ELSE "sampling"
InferJobType(program, job_type) ==
    IF job_type = NoJobType
    THEN IF program.is_list THEN "multi_manual" ELSE "sampling"
    ELSE job_type

\* backend/sampling.py lines 222-227 and 249: the program of the request; a single
\* text is put in a list where the job_type is inferred
SubmittedProgram(program, job_type) ==
    IF job_type = NoJobType /\ ~program.is_list
    THEN [is_list |-> TRUE, texts |-> program.texts]
    ELSE program

\* backend/sampling.py lines 249-260: the request body of sample_qasm
SamplingBody(program, shots, job_type) ==
    [job_type |-> InferJobType(program, job_type),
     program |-> SubmittedProgram(program, job_type),
     shots |-> shots, operator |-> <<>>]

Real(x) == [is_complex |-> FALSE, re |-> x, im |-> 0]
Complex(x, y) == [is_complex |-> TRUE, re |-> x, im |-> y]
Term(pauli, coeff) == [pauli |-> pauli, coeff |-> coeff]

\* backend/estimation.py lines 153-156: a complex coefficient with an imaginary part
CoeffOkAlways(coeff) == TRUE
CoeffOk(coeff) == ~(coeff.is_complex /\ coeff.im # 0)
OperatorOk(operator) == \A i \in 1..Len(operator) : CoeffOk(operator[i].coeff)

\* backend/estimation.py lines 157-169: JobsOperatorItem(pauli=str(pauli),
\* coeff=float(coeff.real)) or coeff=float(coeff)
JobsOperatorItem(term) == [pauli |-> term.pauli, coeff |-> term.coeff.re]
operator_list(operator) == [i \in 1..Len(operator) |-> JobsOperatorItem(operator[i])]

\* backend/estimation.py lines 142 and 170-181: the request body of estimate_qasm
EstimationBody(program, shots, operator) ==
    [job_type |-> "estimation",
     program |-> [is_list |-> TRUE, texts |-> program.texts],
     shots |-> shots, operator |-> operator_list(operator)]

\* a call made to the service (submit_job, get_job) or to the executor of the SSE
\* container, as the log keeps it
SubmitRequest(api, body, id, ok) == [api |-> api, body |-> body, job_id |-> id, ok |-> ok]

\* backend/sampling.py lines 261-266, backend/estimation.py lines 183-187: where
\* the submission goes once submit_job returned or raised
PcAfterSubmitAlwaysGet(ok) == "get"
PcAfterSubmit(ok) == IF ok THEN "get" ELSE "done"

\* the job_type of a job record: sampling | estimation | sse | multi_manual
JobTypes == {"sampling", "estimation", "sse", "multi_manual"}

\* job_backend_base.py lines 35-70: no retrieve_job call made
NotRetrieved ==
    [state |-> "none", job_id |-> "",
     response |-> [state |-> "none", valid |-> FALSE, job_type |-> "", job |-> NoJob],
     ret |-> SubmitOutcome("", "")]

\* job_backend_base.py lines 50-70 with an SSE job wrapped like a sampling job
RetrievedJobSseAsSampling(response) ==
    IF response.state # "ok"
    THEN SubmitOutcome("BackendError", "To retrieve_job from OQTOPUS Cloud is failed.")
    ELSE IF ~response.valid
    THEN SubmitOutcome("BackendError",
                       "The response from OQTOPUS Cloud is not a valid job definition.")
    ELSE IF response.job_type \in {"sampling", "sse"}
    THEN [SubmitOutcome("job", "") EXCEPT !.job = response.job, !.kind = "sampling"]
    ELSE IF response.job_type = "estimation"
    THEN [SubmitOutcome("job", "") EXCEPT !.job = response.job, !.kind = "estimation"]
    ELSE SubmitOutcome("BackendError", "Unknown job_type")
\* job_backend_base.py lines 50-70: what retrieve_job makes of the response of
\* get_job: state says whether the call went through, valid whether the response
\* is a JobsJobDef
RetrievedJob(response) ==
    IF response.state # "ok"
    THEN SubmitOutcome("BackendError", "To retrieve_job from OQTOPUS Cloud is failed.")
    ELSE IF ~response.valid
    THEN SubmitOutcome("BackendError",
                       "The response from OQTOPUS Cloud is not a valid job definition.")
    ELSE IF response.job_type = "sampling"
    THEN [SubmitOutcome("job", "") EXCEPT !.job = response.job, !.kind = "sampling"]
    ELSE IF response.job_type = "estimation"
    THEN [SubmitOutcome("job", "") EXCEPT !.job = response.job, !.kind = "estimation"]
    ELSE IF response.job_type = "sse"
    THEN SubmitOutcome("BackendError", "SSE job is not supported in this backend.")
    ELSE SubmitOutcome("BackendError", "Unknown job_type")

SubmitIdle ==
    /\ sub_pc = "idle"
    /\ sub_call = NoSubmitCall
    /\ sub_reqs = <<>>
    /\ sub_ret = SubmitOutcome("", "")
    /\ retrieved = NotRetrieved

(***************************************************************************)
(* OqtopusStorage, backend/storage.py.                                     *)
(*                                                                         *)
(* bytes are told by whether they decode as UTF-8 and, when they do, by    *)
(* the JSON tokens of the text: a punctuation mark, a string ("str") or a  *)
(* number ("num").  The documents written and read here are flat: the      *)
(* values of an object and the elements of an array are numbers.           *)
(* A zip archive is told by whether ZipFile can open it and by its         *)
(* entries, each a name and its content.                                   *)
(* A file name is the sequence of its parts between dots ("input.zip" is   *)
(* <<"input", "zip">>); a key is the sequence of the names between         *)
(* slashes; the value of any other presigned field is written as a key is. *)
(***************************************************************************)
Token(t, s, n) == [t |-> t, s |-> s, n |-> n]

\* storage.py line 107: json.dumps(data) of a dict whose values are ints: the
\* members in insertion order, separated by commas, between braces; a key that
\* is an int is written as the str of it (the ints here have one digit)
json_dumps_no_separator(data) ==
    LET KeyText(k) == IF k.is_str THEN k.chars ELSE <<k.num>>
    IN  <<Token("{", <<>>, 0)>>
        \o [p \in 1..(3 * Len(data)) |->
              LET j == (p + 2) \div 3
                  r == (p - 1) % 3
              IN  CASE r = 0 -> Token("str", KeyText(data[j].key), 0)
                    [] r = 1 -> Token(":", <<>>, 0)
                    [] r = 2 -> Token("num", <<>>, data[j].count)]
        \o <<Token("}", <<>>, 0)>>
json_dumps(data) ==
    LET KeyText(k) == IF k.is_str THEN k.chars ELSE <<k.num>>
    IN  <<Token("{", <<>>, 0)>>
        \o [p \in 1..(IF data = <<>> THEN 0 ELSE 4 * Len(data) - 1) |->
              LET j == (p + 3) \div 4
                  r == (p - 1) % 4
              IN  CASE r = 0 -> Token("str", KeyText(data[j].key), 0)
                    [] r = 1 -> Token(":", <<>>, 0)
                    [] r = 2 -> Token("num", <<>>, data[j].count)
                    [] r = 3 -> Token(",", <<>>, 0)]
        \o <<Token("}", <<>>, 0)>>

\* storage.py lines 39-43: json.loads of the text.  type is
\* type(data).__name__, or "" when json.loads raises JSONDecodeError; value is
\* the dict of an object, where a repeated name keeps its last value.  Between
\* the brackets stand name : number , name : number ... or number , number ...
json_loads_text(text) ==
    LET inner == SubSeq(text, 2, Len(text) - 1)
        Bracketed(open, close) ==
            /\ Len(text) >= 2
            /\ text[1] = Token(open, <<>>, 0)
            /\ text[Len(text)] = Token(close, <<>>, 0)
        IsMembers ==
            /\ Len(inner) % 4 = 3
            /\ \A p \in 1..Len(inner) :
                  LET r == (p - 1) % 4
                  IN  CASE r = 0 -> inner[p].t = "str"
                        [] r = 1 -> inner[p] = Token(":", <<>>, 0)
                        [] r = 2 -> inner[p].t = "num"
                        [] r = 3 -> inner[p] = Token(",", <<>>, 0)
        IsElements ==
            /\ Len(inner) % 2 = 1
            /\ \A p \in 1..Len(inner) :
                  IF p % 2 = 1 THEN inner[p].t = "num"
                  ELSE inner[p] = Token(",", <<>>, 0)
        members == [j \in 1..((Len(inner) + 1) \div 4) |->
                      Item(StrKey(inner[4 * j - 3].s), inner[4 * j - 1].n)]
    IN  CASE Bracketed("{", "}") /\ (inner = <<>> \/ IsMembers) ->
                [type |-> "dict", value |-> DictOf(members)]
          [] Bracketed("[", "]") /\ (inner = <<>> \/ IsElements) ->
                [type |-> "list", value |-> <<>>]
          [] Len(text) = 1 /\ text[1].t = "str" -> [type |-> "str", value |-> <<>>]
          [] Len(text) = 1 /\ text[1].t = "num" -> [type |-> "int", value |-> <<>>]
          [] OTHER -> [type |-> "", value |-> <<>>]

\* how a call of OqtopusStorage ended: out is "" while it runs, "returned" or
\* "raised"; found and got are the parts of the message that vary; upload
\* returns None, the value <<>>
StorageOutcome(op, out, error, msg) ==
    [op |-> op, out |-> out, error |-> error, msg |-> msg,
     found |-> 0, got |-> "", value |-> <<>>]
OqtopusStorageError(op, msg) == StorageOutcome(op, "raised", "OqtopusStorageError", msg)

\* bytes that ZipFile does not open
NotZip == [is_zip |-> FALSE, entries |-> <<>>]

\* storage.py lines 25-53: _extract_zip_object.  json.loads decodes the bytes
\* before it parses them, and the UnicodeDecodeError of bytes that are not
\* UTF-8 is neither a BadZipFile nor a JSONDecodeError
extract_zip_object(zip_bytes) ==
    IF ~zip_bytes.is_zip
    THEN OqtopusStorageError("download", "Invalid ZIP file")
    ELSE IF Len(zip_bytes.entries) # 1
    THEN [OqtopusStorageError("download",
              "Expected one file in single ZIP archive, but found")
            EXCEPT !.found = Len(zip_bytes.entries)]
    ELSE LET content == zip_bytes.entries[1].content
             data == json_loads_text(content.text)
         IN  IF ~content.utf8
             THEN StorageOutcome("download", "raised", "UnicodeDecodeError", "")
             ELSE IF data.type = ""
             THEN OqtopusStorageError("download", "Invalid JSON in ZIP file")
             ELSE IF data.type # "dict"
             THEN [OqtopusStorageError("download",
                       "Expected JSON root to be an object (dict) but got")
                     EXCEPT !.got = data.type]
             ELSE [StorageOutcome("download", "returned", "", "")
                     EXCEPT !.value = data.value]

\* the answer to an HTTP request: none yet (state "none"), requests.get or
\* requests.post raised a RequestException ("raised"), or a response came
\* ("answered")
Response(state, status_code, content) ==
    [state |-> state, status_code |-> status_code, content |-> content]

\* storage.py lines 76 and 131: Response.raise_for_status raises HTTPError for
\* the status codes of a client or server error, and for no other code
raise_for_status(status_code) == 400 <= status_code /\ status_code < 600

\* storage.py lines 74-80: download once requests.get ended
DownloadOutcome(resp) ==
    IF resp.state = "raised" \/ raise_for_status(resp.status_code)
    THEN OqtopusStorageError("download", "Network error during download")
    ELSE extract_zip_object(resp.content)

\* storage.py lines 99-135: upload once requests.post ended
UploadOutcome(resp) ==
    IF resp.state = "raised" \/ raise_for_status(resp.status_code)
    THEN OqtopusStorageError("upload", "Network error during upload")
    ELSE StorageOutcome("upload", "returned", "", "")

\* storage.py line 106: Path(name).stem, the name without its suffix; a name
\* has a suffix when its last dot is neither its first nor its last character
PathStem(name) ==
    IF /\ Len(name) > 1
       /\ name[Len(name)] # ""
       /\ ~(Len(name) = 2 /\ name[1] = "")
    THEN SubSeq(name, 1, Len(name) - 1)
    ELSE name

\* the presigned fields as fields.to_dict() gives them, by attribute name
Fields(key, signature) ==
    [key |-> key,
     x_amz_security_token |-> <<<<"TEST_TOKEN">>>>,
     aws_access_key_id |-> <<<<"TEST_KEY">>>>,
     policy |-> <<<<"TEST_POLICY">>>>,
     signature |-> <<<<signature>>>>]
\* JobsJobInfoUploadPresignedURLFields.attribute_map: the wire name of each
\* attribute
attribute_map ==
    [key |-> "key",
     x_amz_security_token |-> "x-amz-security-token",
     aws_access_key_id |-> "AWSAccessKeyId",
     policy |-> "policy",
     signature |-> "signature"]
\* storage.py lines 114-117: the dict comprehension over fields.to_dict().items()
original_fields(fields) ==
    [w \in {attribute_map[k] : k \in DOMAIN fields} |->
        fields[CHOOSE k \in DOMAIN fields : attribute_map[k] = w]]

\* storage.py lines 100-130: the POST: the form, and the file named
\* Path(key).name that holds the archive of one entry, <stem>.json
PostRequest(fields, data) ==
    LET name == fields.key[Len(fields.key)]
    IN  [method |-> "POST",
         data |-> original_fields(fields),
         file |-> [filename |-> name,
                   content |->
                       [is_zip |-> TRUE,
                        entries |-> <<[name |-> PathStem(name) \o <<"json">>,
                                       content |-> [utf8 |-> TRUE,
                                                    text |-> json_dumps(data)]]>>],
                   content_type |-> "application/zip"]]

\* no storage call made yet
StorageIdle ==
    /\ st_pc = "idle"
    /\ st_call = [op |-> "", fields |-> Fields(<<>>, ""), data |-> <<>>,
                  response |-> Response("none", 0, NotZip)]
    /\ st_reqs = <<>>
    /\ st_ret = StorageOutcome("", "", "", "")

(***************************************************************************)
(* The state after construction: a job object of either class holding any  *)
(* record (the constructor takes the record it is given), no call made     *)
(* yet.                                                                    *)
(***************************************************************************)
DecodeIdle == /\ payload = NoPayload
              /\ decoded = [done |-> FALSE, value |-> Failure("")]

Init ==
    /\ job \in Records
    /\ kind \in {"sampling", "estimation"}
    /\ pc = "idle"
    /\ call = NoCall
    /\ elapsed_time = 0
    /\ slept = 0
    /\ ret = Running("")
    /\ fetched = NotFetched
    /\ reqs = <<>>
    /\ naps = 0
    /\ DecodeIdle
    /\ SubmitIdle
    /\ StorageIdle

\* job_base.py lines 227-239: refresh()
refresh ==
    /\ pc = "idle"
    /\ \E ok \in BOOLEAN : \E r \in Answers(ok) :
         LET a == get_job(ok, RequestId(job), r)
         IN  /\ fetched' = a
             /\ job' = RefreshedJob(job, a)
             /\ reqs' = <<Request("get_job", RequestId(job), ok)>>
             /\ ret' = IF a.state = "ok" THEN Outcome("refresh", "ok", "")
                       ELSE BackendError("refresh", "To refresh job is failed.")
    /\ naps' = 0
    /\ UNCHANGED <<kind, pc, call, elapsed_time, slept, payload, decoded, submitVars, storageVars>>

\* job_base.py lines 258-259: start_time is taken and the first refresh made, for
\* call op ("wait_for_completion", or "result" calling it at sampling.py line 134)
StartWaiting(op, timeout, wait) ==
    /\ \E ok \in BOOLEAN : \E r \in Answers(ok) :
         LET a == get_job(ok, RequestId(job), r)
         IN  /\ fetched' = a
             /\ job' = RefreshedJob(job, a)
             /\ IF a.state = "ok"
                THEN /\ pc' = PcAfterRefresh(a)
                     /\ call' = [op |-> op, timeout |-> timeout, wait |-> wait]
                     /\ ret' = Running(op)
                ELSE /\ pc' = PcAfterRefresh(a)
                     /\ call' = NoCall
                     /\ ret' = BackendError(op, "To refresh job is failed.")
             /\ reqs' = <<Request("get_job", RequestId(job), ok)>>
    /\ elapsed_time' = 0
    /\ slept' = 0
    /\ naps' = 0
    /\ UNCHANGED <<kind, payload, decoded, submitVars, storageVars>>

\* job_base.py lines 241-259: wait_for_completion(timeout, wait) is called
wait_for_completion ==
    /\ pc = "idle"
    /\ \E timeout \in Timeouts, wait \in Waits :
         StartWaiting("wait_for_completion", timeout, wait)

\* sampling.py lines 133-163 and estimation.py lines 103-116: result(timeout, wait)
\* is called; a job that is already final is not polled
result ==
    /\ pc = "idle"
    /\ IF ~IsFinal(job.status)
       THEN \E timeout \in Timeouts, wait \in Waits : StartWaiting("result", timeout, wait)
       ELSE /\ ret' = ResultTail("result", job, kind)
            /\ reqs' = <<>>
            /\ fetched' = NotFetched
            /\ naps' = 0
            /\ UNCHANGED <<job, kind, pc, call, elapsed_time, slept,
                           payload, decoded, submitVars, storageVars>>

\* job_base.py lines 260-267: the loop test, the timeout check and the entry
\* into time.sleep; line 270 when the loop ends
LoopTest ==
    /\ pc = "check"
    /\ IF IsFinal(job.status)
       THEN /\ ret' = ReturnedJob(call.op, job, kind)
            /\ pc' = "idle"
            /\ call' = NoCall
            /\ elapsed_time' = 0
            /\ UNCHANGED naps
       ELSE IF TimedOut(call.timeout, elapsed_time)
       THEN /\ ret' = [ReturnedNone(call.op, job, kind)
                          EXCEPT !.timeout = call.timeout, !.elapsed = elapsed_time]
            /\ pc' = "idle"
            /\ call' = NoCall
            /\ elapsed_time' = 0
            /\ UNCHANGED naps
       ELSE /\ pc' = "sleep"
            /\ naps' = Min(naps + 1, MaxReqs)
            /\ UNCHANGED <<ret, call, elapsed_time>>
    /\ slept' = 0
    /\ UNCHANGED <<job, kind, fetched, reqs, payload, decoded, submitVars, storageVars>>

\* job_base.py lines 267-268: time.sleep(wait) returns and the job is refreshed
Wake ==
    /\ pc = "sleep"
    /\ SleepOver(slept, call.wait)
    /\ \E ok \in BOOLEAN : \E r \in Answers(ok) :
         LET a == get_job(ok, RequestId(job), r)
         IN  /\ fetched' = a
             /\ job' = RefreshedJob(job, a)
             /\ IF a.state = "ok"
                THEN /\ pc' = PcAfterRefresh(a)
                     /\ UNCHANGED <<call, ret, elapsed_time>>
                ELSE /\ pc' = PcAfterRefresh(a)
                     /\ call' = NoCall
                     /\ elapsed_time' = 0
                     /\ ret' = BackendError(call.op, "To refresh job is failed.")
             /\ reqs' = Log(reqs, Request("get_job", RequestId(job), ok))
    /\ slept' = 0
    /\ UNCHANGED <<kind, naps, payload, decoded, submitVars, storageVars>>

\* job_base.py lines 272-288: cancel(): the cancel request and, when it went
\* through, the refresh
cancel ==
    /\ pc = "idle"
    /\ \E okc \in BOOLEAN :
         IF ~CancelRefreshes(okc)
         THEN /\ reqs' = <<Request("cancel_job", RequestId(job), okc)>>
              /\ fetched' = NotFetched
              /\ ret' = BackendError("cancel", "To cancel job is failed.")
              /\ UNCHANGED job
         ELSE \E okg \in BOOLEAN : \E r \in Answers(okg) :
                LET a == get_job(okg, RequestId(job), r)
                IN  /\ reqs' = <<Request("cancel_job", RequestId(job), okc),
                                 Request("get_job", RequestId(job), okg)>>
                    /\ fetched' = a
                    /\ job' = RefreshedJob(job, a)
                    /\ ret' = CancelOutcome(okc, a)
    /\ naps' = 0
    /\ UNCHANGED <<kind, pc, call, elapsed_time, slept, payload, decoded, submitVars, storageVars>>

\* time passes while a call is in progress: time.time() (job_base.py line 262)
\* reads one more second, and so does a time.sleep in progress (line 267)
Tick ==
    /\ pc # "idle"
    /\ elapsed_time < MaxElapsed \/ (pc = "sleep" /\ slept < call.wait)
    /\ elapsed_time' = Min(elapsed_time + 1, MaxElapsed)
    /\ slept' = IF pc = "sleep" THEN Min(slept + 1, call.wait) ELSE slept
    /\ UNCHANGED <<job, kind, pc, call, ret, fetched, reqs, naps, payload, decoded, submitVars, storageVars>>

Next ==
    \/ refresh
    \/ wait_for_completion
    \/ result
    \/ LoopTest
    \/ Wake
    \/ cancel
    \/ Tick

Spec == Init /\ [][Next]_vars

\* a running client: the clock advances, the loop test is made, a sleep ends
FairSpec == Spec /\ WF_vars(Tick) /\ WF_vars(LoopTest) /\ WF_vars(Wake)


(***************************************************************************)
(* The payloads SpecDecode decodes.  Keys are bit strings of 1..MaxBits     *)
(* characters, the string "2" (not a bit string) and the integers 0..3;    *)
(* a JSON object has string names only and may repeat a name.              *)
(***************************************************************************)
BitStrings == UNION {[1..n -> {0, 1}] : n \in 1..MaxBits}
StrKeys == {StrKey(s) : s \in BitStrings \cup {<<2>>}}
IntKeys == {IntKey(n) : n \in 0..3}
Counts == {1, 2}

SeqsUpTo(S, n) == UNION {[1..m -> S] : m \in 0..n}
DistinctKeys(items) ==
    \A i, j \in 1..Len(items) : items[i].key = items[j].key => i = j

CountsMapping(d) == [NoPayload EXCEPT !.has_counts = TRUE, !.counts = d]
CountsJson(d) ==
    [NoPayload EXCEPT !.has_counts = TRUE, !.counts_is_str = TRUE, !.counts = d]

\* the breakdown: indexes "0", "1", "01", "10" and 1; short inner mappings
IndexStrKeys == {StrKey(<<0>>), StrKey(<<1>>), StrKey(<<0, 1>>), StrKey(<<1, 0>>)}
InnerStrKeys == {StrKey(<<1>>), StrKey(<<0, 1>>), StrKey(<<1, 0>>), StrKey(<<2>>)}
DistinctIndexes(div) ==
    \A i, j \in 1..Len(div) : div[i].index = div[j].index => i = j
InnerKeys == InnerStrKeys \cup {IntKey(1)}
IndexKeys == IndexStrKeys \cup {IntKey(1)}
Entries(I, K, n) == [index : I, items : SeqsUpTo([key : K, count : Counts], n)]
DistinctInner(div) == \A i \in 1..Len(div) : DistinctKeys(div[i].items)

WithDivided(is_str, d) ==
    [NoPayload EXCEPT !.has_counts = TRUE, !.counts_is_str = TRUE,
                      !.counts = <<Item(StrKey(<<1, 0>>), 1)>>,
                      !.divided_is_str = is_str, !.divided_counts = d]

LifeCycleIdle ==
    /\ job = [job_id |-> "job_a", status |-> "succeeded", job_info |-> InfoResult]
    /\ kind = "sampling"
    /\ pc = "idle"
    /\ call = NoCall
    /\ elapsed_time = 0
    /\ slept = 0
    /\ ret = Running("")
    /\ fetched = NotFetched
    /\ reqs = <<>>
    /\ naps = 0

InitDecode ==
    /\ LifeCycleIdle
    /\ SubmitIdle
    /\ StorageIdle
    /\ decoded = [done |-> FALSE, value |-> Failure("")]
    /\ \/ payload = NoPayload
       \/ \E m \in 0..MaxEntries : \E d \in [1..m -> [key : StrKeys \cup IntKeys, count : Counts]] :
            DistinctKeys(d) /\ payload = CountsMapping(d)
       \/ \E m \in 0..MaxEntries : \E d \in [1..m -> [key : StrKeys, count : Counts]] :
            payload = CountsJson(d)
       \/ \E e \in Entries(IndexKeys, InnerKeys, MaxEntries) :
            DistinctInner(<<e>>) /\ payload = WithDivided(FALSE, <<e>>)
       \/ \E d \in [1..2 -> Entries(IndexKeys, InnerKeys, 1)] :
            DistinctIndexes(d) /\ payload = WithDivided(FALSE, d)
       \/ \E e \in Entries(IndexStrKeys, InnerStrKeys, MaxEntries) :
            payload = WithDivided(TRUE, <<e>>)
       \/ \E d \in [1..2 -> Entries(IndexStrKeys, InnerStrKeys, 1)] :
            payload = WithDivided(TRUE, d)
       \/ \E e \in Entries(IndexKeys, InnerKeys, 1), has_counts \in BOOLEAN :
            payload = [WithDivided(FALSE, <<e>>)
                         EXCEPT !.has_counts = has_counts, !.counts_is_str = FALSE,
                                !.counts = IF has_counts THEN @ ELSE <<>>]
       \/ payload = TestPayload

\* sampling.py lines 143-163: result() decodes the payload of a succeeded job
Decode ==
    /\ ~decoded.done
    /\ decoded' = [done |-> TRUE, value |-> SamplingDecode(payload)]
    /\ UNCHANGED <<job, kind, pc, call, elapsed_time, slept, ret, fetched, reqs, naps,
                   payload, submitVars, storageVars>>

NextDecode == Decode

SpecDecode == InitDecode /\ [][NextDecode]_vars

\* sampling.py lines 57-74: OqtopusSamplingResult(payload) is constructed, by a
\* caller that holds a payload whose counts and divided_counts are dicts
Construct ==
    /\ ~decoded.done
    /\ ~payload.counts_is_str
    /\ ~payload.divided_is_str
    /\ decoded' = [done |-> TRUE,
                   value |-> SamplingResultInit(payload).value,
                   msg |-> SamplingResultInit(payload).msg]
    /\ UNCHANGED <<job, kind, pc, call, elapsed_time, slept, ret, fetched, reqs, naps,
                   payload, submitVars, storageVars>>

SpecResult == InitDecode /\ [][Construct]_vars

(***************************************************************************)
(* SpecSubmit: one submission through a backend, from the call to the job   *)
(* object it returns or the exception it raises.                           *)
(***************************************************************************)
Names == {"p1", "p2"}
\* a circuit: its gates, its qubit_count, and whether it holds a measurement
Circuits == [gates : Names, qubit_count : 1..2, measured : BOOLEAN]
ProgramsOf(T) ==
    {[is_list |-> FALSE, texts |-> <<t>>] : t \in T}
    \cup {[is_list |-> TRUE, texts |-> ts] : ts \in SeqsUpTo(T, MaxPrograms)}
ShotCounts == -1..2
GivenJobTypes == {"sampling", "multi_manual", "sse"}

Paulis == {"I", "Z0", "X0 Y1"}
Coeffs == {Real(1), Complex(2, 0), Complex(1, 2)}
DistinctPaulis(operator) ==
    \A i, j \in 1..Len(operator) : operator[i].pauli = operator[j].pauli => i = j
Operators == {o \in SeqsUpTo([pauli : Paulis, coeff : Coeffs], MaxTerms) : DistinctPaulis(o)}

\* quri_parts.openqasm convert_to_qasm_str, as called at backend/estimation.py
\* line 82 and backend/sampling.py line 272: the text of a circuit, of the shape
\* the tests show (test_sampling.py line 104): the header, "qubit[n] q;", the
\* gates, and the measurement of a circuit that holds one
convert_to_qasm_str(c) ==
    LET Statement(t, n) == <<[t |-> t, n |-> n], [t |-> ";", n |-> 0]>>
    IN  Statement("OPENQASM", 3) \o Statement("qubit", c.qubit_count)
        \o Statement(c.gates, 0)
        \o (IF c.measured THEN Statement("c[0] = measure q[0]", 0) ELSE <<>>)

\* the program texts handed to sample_qasm and estimate_qasm
Texts == {convert_to_qasm_str(c) : c \in {d \in Circuits : d.qubit_count = 2}}

\* backend/sampling.py lines 275-289 with the bit declaration put after the
\* first semicolon of the text
with_measure_after_first_semicolon(qasm, size) ==
    LET Find(sub, start) ==
            LET at == {i \in start..Len(qasm) :
                          \/ qasm[i].t = sub
                          \/ sub = "measure" /\ qasm[i].t \in {"c = measure q", "c[0] = measure q[0]"}}
            IN  IF at = {} THEN 0 ELSE CHOOSE i \in at : \A j \in at : i <= j
        semicolon_index == Find(";", 1)
        declared ==
            IF Find("qubit", 1) # 0 /\ semicolon_index # 0
            THEN SubSeq(qasm, 1, semicolon_index)
                 \o <<[t |-> "bit", n |-> size], [t |-> ";", n |-> 0]>>
                 \o SubSeq(qasm, semicolon_index + 1, Len(qasm))
            ELSE qasm
    IN  IF Find("measure", 1) = 0
        THEN declared \o <<[t |-> "c = measure q", n |-> 0], [t |-> ";", n |-> 0]>>
        ELSE qasm
\* backend/sampling.py lines 275-289: the text qasm of a circuit of size qubits,
\* with "bit[size] c;" put after the first semicolon that follows the first
\* "qubit" and "c = measure q;" put at the end, unless the text holds "measure".
\* A text is the sequence of its lexemes, Find is str.find (0 for -1)
with_measure(qasm, size) ==
    LET Find(sub, start) ==
            LET at == {i \in start..Len(qasm) :
                          \/ qasm[i].t = sub
                          \/ sub = "measure" /\ qasm[i].t \in {"c = measure q", "c[0] = measure q[0]"}}
            IN  IF at = {} THEN 0 ELSE CHOOSE i \in at : \A j \in at : i <= j
        qubit_index == Find("qubit", 1)
        semicolon_index == IF qubit_index = 0 THEN 0 ELSE Find(";", qubit_index)
        declared ==
            IF qubit_index # 0 /\ semicolon_index # 0
            THEN SubSeq(qasm, 1, semicolon_index)
                 \o <<[t |-> "bit", n |-> size], [t |-> ";", n |-> 0]>>
                 \o SubSeq(qasm, semicolon_index + 1, Len(qasm))
            ELSE qasm
    IN  IF Find("measure", 1) = 0
        THEN declared \o <<[t |-> "c = measure q", n |-> 0], [t |-> ";", n |-> 0]>>
        ELSE qasm
\* backend/sampling.py lines 271-290: the text of a circuit, with the measure
\* statement added where it has none
convert_to_qasm_str_with_measure(program) ==
    with_measure(convert_to_qasm_str(program), program.qubit_count)

OthersIdle ==
    UNCHANGED <<job, kind, pc, call, elapsed_time, slept, ret, fetched, reqs, naps,
                payload, decoded, storageVars, retrieved>>

\* backend/sampling.py lines 218-260: sample_qasm up to the request body;
\* circuits is what sample was given when the call comes from it
SampleQasmCall(entry, program, shots, job_type, sse, circuits) ==
    LET args == [NoSubmitCall EXCEPT !.backend = "sampling", !.entry = entry,
                                     !.program = program, !.shots = shots,
                                     !.job_type = job_type, !.sse = sse,
                                     !.circuits = circuits]
    IN  /\ sub_reqs' = <<>>
        /\ IF ~ShotsOk(shots)
           THEN /\ sub_pc' = "done"
                /\ sub_call' = args
                /\ sub_ret' = SubmitOutcome("ValueError", "shots should be a positive integer.")
           ELSE /\ sub_pc' = IF sse THEN "sse" ELSE "submit"
                /\ sub_call' = [args EXCEPT !.body = SamplingBody(program, shots, job_type)]
                /\ sub_ret' = SubmitOutcome("", "")
        /\ OthersIdle

\* backend/sampling.py lines 177-268: sample_qasm(program, device_id, shots, ...,
\* job_type); OQTOPUS_ENV says whether the call runs inside the SSE container
sample_qasm ==
    /\ sub_pc = "idle"
    /\ \E program \in ProgramsOf(Texts), shots \in ShotCounts,
          job_type \in {NoJobType} \cup GivenJobTypes, sse \in BOOLEAN :
           SampleQasmCall("sample_qasm", program, shots, job_type, sse, NoProgram)

\* backend/sampling.py lines 123-175: sample(program, device_id, shots, ...)
sample ==
    /\ sub_pc = "idle"
    /\ \E program \in ProgramsOf(Circuits), shots \in ShotCounts, sse \in BOOLEAN :
         LET qasm == [program EXCEPT !.texts =
                         [i \in 1..Len(program.texts) |->
                             convert_to_qasm_str_with_measure(program.texts[i])]]
         IN  SampleQasmCall("sample", qasm, shots, NoJobType, sse, program)

\* backend/estimation.py lines 138-181: estimate_qasm up to the request body
EstimateQasmCall(entry, program, shots, operator) ==
    LET args == [NoSubmitCall EXCEPT !.backend = "estimation", !.entry = entry,
                                     !.program = program, !.shots = shots,
                                     !.operator = operator]
    IN  /\ sub_reqs' = <<>>
        /\ IF ~ShotsOk(shots)
           THEN /\ sub_pc' = "done"
                /\ sub_call' = args
                /\ sub_ret' = SubmitOutcome("ValueError", "shots should be a positive integer.")
           ELSE IF ~OperatorOk(operator)
           THEN /\ sub_pc' = "done"
                /\ sub_call' = args
                /\ sub_ret' = SubmitOutcome("ValueError",
                                  "Complex numbers are not supported in coefficient")
           ELSE /\ sub_pc' = "submit"
                /\ sub_call' = [args EXCEPT !.body = EstimationBody(program, shots, operator)]
                /\ sub_ret' = SubmitOutcome("", "")
        /\ OthersIdle

\* backend/estimation.py lines 96-189: estimate_qasm(program, operator, device_id,
\* shots, ...), program being one text
estimate_qasm ==
    /\ sub_pc = "idle"
    /\ \E t \in Texts, shots \in ShotCounts, operator \in Operators :
         EstimateQasmCall("estimate_qasm", [is_list |-> FALSE, texts |-> <<t>>],
                          shots, operator)

\* backend/estimation.py lines 41-94: estimate(program, operator, device_id,
\* shots, ...), program being one circuit
estimate ==
    /\ sub_pc = "idle"
    /\ \E c \in Circuits, shots \in ShotCounts, operator \in Operators :
         EstimateQasmCall("estimate",
                          [is_list |-> FALSE, texts |-> <<convert_to_qasm_str(c)>>],
                          shots, operator)

\* backend/sampling.py line 261, backend/estimation.py line 183:
\* self._job_api.submit_job(body=body) returns the id of the job or raises
SubmitJob ==
    /\ sub_pc = "submit"
    /\ \E ok \in BOOLEAN : \E id \in IF ok THEN JobIds ELSE {""} :
         /\ sub_reqs' = Append(sub_reqs, SubmitRequest("submit_job", sub_call.body, "", ok))
         /\ sub_pc' = PcAfterSubmit(ok)
         /\ sub_call' = [sub_call EXCEPT !.job_id = id]
         /\ sub_ret' = IF ok THEN sub_ret
                       ELSE SubmitOutcome("BackendError",
                                IF sub_call.backend = "sampling"
                                THEN "To execute sampling on OQTOPUS Cloud is failed."
                                ELSE "To execute estimation on OQTOPUS Cloud is failed.")
    /\ OthersIdle

\* backend/sampling.py lines 262-268, backend/estimation.py lines 184-189:
\* self._job_api.get_job(response_submit_job.job_id) and the job object made of
\* its response
GetJob ==
    /\ sub_pc = "get"
    /\ \E ok \in BOOLEAN : \E r \in Answers(ok) :
         LET a == get_job(ok, sub_call.job_id, r)
         IN  /\ sub_reqs' = Append(sub_reqs,
                                   SubmitRequest("get_job", NoBody, sub_call.job_id, ok))
             /\ sub_call' = [sub_call EXCEPT !.response = a.job]
             /\ sub_ret' = IF a.state = "ok"
                           THEN [SubmitOutcome("job", "") EXCEPT !.job = sub_call'.response,
                                                                !.kind = sub_call.backend]
                           ELSE SubmitOutcome("BackendError",
                                    IF sub_call.backend = "sampling"
                                    THEN "To execute sampling on OQTOPUS Cloud is failed."
                                    ELSE "To execute estimation on OQTOPUS Cloud is failed.")
    /\ sub_pc' = "done"
    /\ OthersIdle

\* backend/sampling.py lines 237-247: inside the SSE container the program is
\* handed to sse_sampler.req_transpile_and_exec, whose response becomes the job
SseExec ==
    /\ sub_pc = "sse"
    /\ \E ok \in BOOLEAN : \E r \in IF ok THEN Records ELSE {NoJob} :
         /\ sub_reqs' = Append(sub_reqs,
                               SubmitRequest("sse_sampler", sub_call.body, "", ok))
         /\ sub_call' = [sub_call EXCEPT !.response = r]
         /\ sub_ret' = IF ok
                       THEN [SubmitOutcome("job", "") EXCEPT !.job = sub_call'.response,
                                                            !.kind = "sampling"]
                       ELSE SubmitOutcome("BackendError",
                                "To execute sampling on OQTOPUS Cloud is failed.")
    /\ sub_pc' = "done"
    /\ OthersIdle

InitSubmit ==
    /\ LifeCycleIdle
    /\ DecodeIdle
    /\ SubmitIdle
    /\ StorageIdle

NextSubmit ==
    \/ sample
    \/ sample_qasm
    \/ estimate
    \/ estimate_qasm
    \/ SubmitJob
    \/ GetJob
    \/ SseExec

SpecSubmit == InitSubmit /\ [][NextSubmit]_vars

(***************************************************************************)
(* SpecRetrieve: one submission at most through the sampling backend, then  *)
(* one retrieve_job at most.  A retrieval made on a fresh backend is       *)
(* answered anything; a retrieval made after a submission asks for the job *)
(* the submission returned and is answered, if at all, the record that job *)
(* object wraps, under any job_type.                                       *)
(***************************************************************************)
\* job_backend_base.py lines 35-70: retrieve_job(job_id)
retrieve_job ==
    /\ retrieved.state = "none"
    /\ \/ sub_pc = "idle"
       \/ sub_pc = "done" /\ sub_ret.out = "job"
    /\ \E job_id \in IF sub_pc = "idle" THEN JobIds ELSE {sub_ret.job.job_id},
          ok \in BOOLEAN :
         \E r \in IF ~ok THEN Answers(FALSE)
                   ELSE IF sub_pc = "idle" THEN Answers(TRUE)
                   ELSE {[status |-> sub_ret.job.status, job_info |-> sub_ret.job.job_info]},
            valid \in IF ok THEN BOOLEAN ELSE {FALSE} :
           \E job_type \in IF valid THEN JobTypes ELSE {""} :
             LET response == [get_job(ok, job_id, r) EXCEPT !.job = IF valid THEN @ ELSE NoJob]
                                 @@ [valid |-> valid, job_type |-> job_type]
             IN  retrieved' = [state |-> "done", job_id |-> job_id, response |-> response,
                               ret |-> RetrievedJob(response)]
    /\ UNCHANGED <<job, kind, pc, call, elapsed_time, slept, ret, fetched, reqs, naps,
                   payload, decoded, storageVars, sub_pc, sub_call, sub_reqs, sub_ret>>

NextRetrieve ==
    \/ retrieved.state = "none" /\ sample
    \/ retrieved.state = "none" /\ sample_qasm
    \/ SubmitJob
    \/ GetJob
    \/ SseExec
    \/ retrieve_job

SpecRetrieve == InitSubmit /\ [][NextRetrieve]_vars

(***************************************************************************)
(* SpecStorage: one upload at most, then one download at most, against a   *)
(* storage service that may answer anything.  A download made after an     *)
(* upload is served the archive the upload posted; a download made alone   *)
(* is served any body.                                                     *)
(***************************************************************************)
MaxFiles == 2       \* an archive has at most MaxFiles entries

HttpStatuses == {200, 301, 404, 500}

\* what the storage may serve to a download: the archive posted, or else bytes
\* that are no archive, or an archive of entries holding bytes that are not
\* UTF-8, the text of an object, an object with a repeated name, an object with
\* a trailing comma (test_storage.py line 96), an array (line 118), a number,
\* or nothing
Served ==
    LET posts == {i \in 1..Len(st_reqs) : st_reqs[i].method = "POST"}
        items == {Item(k, c) : k \in {StrKey(<<0>>), IntKey(1)}, c \in Counts}
        texts ==
            {json_dumps(d) : d \in SeqsUpTo(items, 1)}
            \cup {<<Token("{", <<>>, 0), Token("str", <<0>>, 0), Token(":", <<>>, 0),
                    Token("num", <<>>, 1), Token(",", <<>>, 0), Token("}", <<>>, 0)>>,
                  <<Token("{", <<>>, 0), Token("str", <<0>>, 0), Token(":", <<>>, 0),
                    Token("num", <<>>, 1), Token(",", <<>>, 0),
                    Token("str", <<0>>, 0), Token(":", <<>>, 0),
                    Token("num", <<>>, 2), Token("}", <<>>, 0)>>,
                  <<Token("[", <<>>, 0), Token("num", <<>>, 1), Token(",", <<>>, 0),
                    Token("num", <<>>, 2), Token("]", <<>>, 0)>>,
                  <<Token("num", <<>>, 1)>>,
                  <<>>}
        contents == {[utf8 |-> FALSE, text |-> <<>>]}
                    \cup {[utf8 |-> TRUE, text |-> t] : t \in texts}
        entries == {[name |-> <<"input", "json">>, content |-> c] : c \in contents}
    IN  IF posts # {} THEN {st_reqs[i].file.content : i \in posts}
        ELSE {NotZip}
             \cup {[is_zip |-> TRUE, entries |-> es] : es \in SeqsUpTo(entries, MaxFiles)}

\* storage.py lines 99-130: upload packs the data and posts it
upload ==
    /\ st_pc = "idle"
    /\ st_reqs = <<>>
    /\ \E dir \in {<<>>, <<<<"dummy_job_id">>>>},
          name \in {<<"input", "zip">>, <<"input">>, <<"b", "tar", "zip">>, <<"", "zip">>},
          signature \in {"TEST_SIG", "OTHER_SIG"},
          data \in SeqsUpTo({Item(k, c) : k \in {StrKey(<<0>>), StrKey(<<1>>), IntKey(1)},
                                          c \in Counts},
                            MaxEntries) :
          /\ DistinctKeys(data)
          /\ st_call' = [op |-> "upload", fields |-> Fields(dir \o <<name>>, signature),
                         data |-> data, response |-> Response("none", 0, NotZip)]
          /\ st_reqs' = <<PostRequest(Fields(dir \o <<name>>, signature), data)>>
    /\ st_ret' = StorageOutcome("upload", "", "", "")
    /\ st_pc' = "post"
    /\ UNCHANGED <<job, kind, pc, call, elapsed_time, slept, ret, fetched, reqs, naps,
                   payload, decoded, submitVars>>

\* storage.py lines 119-135: requests.post ended
PostAnswered ==
    /\ st_pc = "post"
    /\ \E resp \in {Response("raised", 0, NotZip)}
                   \cup {Response("answered", s, NotZip) : s \in HttpStatuses} :
          /\ st_call' = [st_call EXCEPT !.response = resp]
          /\ st_ret' = UploadOutcome(resp)
    /\ st_pc' = "idle"
    /\ UNCHANGED <<job, kind, pc, call, elapsed_time, slept, ret, fetched, reqs, naps,
                   payload, decoded, submitVars, st_reqs>>

\* storage.py line 75: download sends the GET, which has no form and no file;
\* the call record keeps the arguments of the upload made before
download ==
    /\ st_pc = "idle"
    /\ st_call' = [st_call EXCEPT !.op = "download",
                                  !.response = Response("none", 0, NotZip)]
    /\ st_reqs' = Append(st_reqs,
                         [method |-> "GET", data |-> EmptyFn,
                          file |-> [filename |-> <<>>, content |-> NotZip,
                                    content_type |-> ""]])
    /\ st_ret' = StorageOutcome("download", "", "", "")
    /\ st_pc' = "get"
    /\ UNCHANGED <<job, kind, pc, call, elapsed_time, slept, ret, fetched, reqs, naps,
                   payload, decoded, submitVars>>

\* storage.py lines 75-80: requests.get ended
GetAnswered ==
    /\ st_pc = "get"
    /\ \E resp \in {Response("raised", 0, NotZip)}
                   \cup {Response("answered", s, b) : s \in HttpStatuses, b \in Served} :
          /\ st_call' = [st_call EXCEPT !.response = resp]
          /\ st_ret' = DownloadOutcome(resp)
    /\ st_pc' = "done"
    /\ UNCHANGED <<job, kind, pc, call, elapsed_time, slept, ret, fetched, reqs, naps,
                   payload, decoded, submitVars, st_reqs>>

InitStorage ==
    /\ LifeCycleIdle
    /\ DecodeIdle
    /\ SubmitIdle
    /\ StorageIdle

NextStorage ==
    \/ upload
    \/ PostAnswered
    \/ download
    \/ GetAnswered

SpecStorage == InitStorage /\ [][NextStorage]_vars

(***************************************************************************)
(* Claims about the life cycle of a job object.                            *)
(***************************************************************************)
Ended(op) == ret.op = op /\ ret.out # ""
GetRequests == {i \in 1..Len(reqs) : reqs[i].api = "get_job"}
CancelRequests == {i \in 1..Len(reqs) : reqs[i].api = "cancel_job"}
\* the steps of the polling loop, told by the position they leave: a call of op
\* starts, the loop test is made, a time.sleep ends and the refresh is made
Starts(op) == pc = "idle" /\ ret'.op = op
Tests == pc = "check" /\ pc' # "check"
Wakes == pc = "sleep" /\ pc' # "sleep"

C2_TimeoutLaw ==
    /\ [](Ended("wait_for_completion") /\ ret.out = "None"
            => ret.timeout # NoTimeout /\ ret.elapsed >= ret.timeout)
    /\ [](Ended("wait_for_completion") /\ fetched.state = "ok"
            /\ fetched.job.status \notin JOB_FINAL_STATUS
            => ret.out = "None")
    /\ ((pc # "idle" /\ call.op = "wait_for_completion" /\ call.timeout # NoTimeout)
            ~> pc = "idle")

\* wait_for_completion with the longest timeout returned None after polling at
\* least twice
C2_Witness ==
    /\ ret.op = "wait_for_completion"
    /\ ret.out = "None"
    /\ ret.timeout = MaxTimeout
    /\ ret.elapsed >= MaxTimeout
    /\ Len(reqs) >= 2
    /\ \A i \in 1..Len(reqs) : reqs[i].ok

\* C3: result() of either class, on a job that is not final and whose polling
\* ends with a refresh that went through and showed a status that is not final
\* (the timeout), raises the BackendError of the timeout and decodes nothing.
C3_ResultTimeoutRaises ==
    (Ended("result") /\ fetched.state = "ok"
       /\ fetched.job.status \notin JOB_FINAL_STATUS) =>
        /\ ret.out = "BackendError"
        /\ ret.msg = "Timeout occurred"
        /\ ~ret.decoded

\* result() of an estimation job timed out after polling at least twice, the
\* record it holds carrying a result payload
C3_Witness ==
    /\ Ended("result")
    /\ kind = "estimation"
    /\ ret.msg = "Timeout occurred"
    /\ job.job_info = InfoResult
    /\ Len(reqs) >= 2

\* C4: result() that ends with the job object holding status failed or cancelled
\* (held before the call, or fetched while polling) raises the BackendError
\* "Job ended with status <status>" and decodes no payload.
C4_ResultFailedOrCancelledRaises ==
    (Ended("result") /\ job.status \in {"failed", "cancelled"}) =>
        /\ ret.out = "BackendError"
        /\ ret.msg = "Job ended with status"
        /\ ret.status = job.status
        /\ ~ret.decoded

\* result() polled a job until the service reported it cancelled
C4_Witness ==
    /\ Ended("result")
    /\ ret.msg = "Job ended with status"
    /\ ret.status = "cancelled"
    /\ Len(reqs) >= 2
    /\ job.job_info = InfoResult

\* C5: result() of either class returns a result value only when the job object's
\* status is succeeded.
C5_ResultOnlyWhenSucceeded ==
    (Ended("result") /\ ret.out = "result") => job.status = "succeeded"

\* result() of a sampling job polled and returned the decoded counts of the tests
C5_Witness ==
    /\ Ended("result")
    /\ ret.out = "result"
    /\ kind = "sampling"
    /\ Len(reqs) >= 1
    /\ ret.sampling.counts = (0 :> 490 @@ 1 :> 10 @@ 2 :> 20 @@ 3 :> 480)

C8_FailedRefreshKeepsRecord ==
    [][(refresh /\ fetched'.state = "failed") =>
          /\ job' = job
          /\ ret'.out = "BackendError"
          /\ ret'.msg = "To refresh job is failed."]_vars

\* refresh() failed on a job object holding a running record
C8_Witness ==
    /\ ret.op = "refresh"
    /\ ret.out = "BackendError"
    /\ fetched.state = "failed"
    /\ job.status = "running"

\* C9 as stated: refresh() on a job object whose status is final leaves the
\* status unchanged.
C9_TerminalStatusFrozen ==
    [][(refresh /\ job.status \in JOB_FINAL_STATUS) => job'.status = job.status]_vars

\* C9 as amended: refresh() on a job object whose status is final still fetches
\* and takes the record of the service; the status stays what it was exactly
\* when the request fails or the fetched record carries that same status.
C9_TerminalStatusFollowsService ==
    [][(refresh /\ job.status \in JOB_FINAL_STATUS) =>
          /\ Len(reqs') = 1
          /\ fetched'.state = "ok" => job' = fetched'.job
          /\ (job'.status = job.status) <=>
                (fetched'.state = "failed" \/ fetched'.job.status = job.status)]_vars

\* refresh() went through on a job the object and the service both hold as
\* succeeded
C9_Witness ==
    /\ ret.op = "refresh"
    /\ ret.out = "ok"
    /\ fetched.state = "ok"
    /\ fetched.job.status = "succeeded"
    /\ job.status = "succeeded"
    /\ job.job_info = InfoNoResult

\* C10: cancel() sends exactly one cancel request, carrying the id of the job;
\* it sends a get_job request (one, after the cancel request) only when the
\* cancel request went through; and after a cancel() that succeeded the job
\* object holds the record that request fetched.
C10_CancelThenRefresh ==
    Ended("cancel") =>
        /\ Len(reqs) >= 1
        /\ reqs[1] = Request("cancel_job", job.job_id, reqs[1].ok)
        /\ CancelRequests = {1}
        /\ GetRequests = IF reqs[1].ok THEN {2} ELSE {}
        /\ \A i \in GetRequests : reqs[i].job_id = job.job_id
        /\ ret.out = "ok" =>
              /\ GetRequests = {2}
              /\ reqs[2].ok
              /\ fetched.state = "ok"
              /\ job = fetched.job

\* cancel() succeeded and the refreshed record says cancelled
C10_Witness ==
    /\ Ended("cancel")
    /\ ret.out = "ok"
    /\ Len(reqs) = 2
    /\ job.status = "cancelled"

(***************************************************************************)
(* Claims about the decoding of a sampling payload, checked under           *)
(* SpecDecode.  The reference values below are computed from the payload   *)
(* alone.                                                                  *)
(***************************************************************************)
RECURSIVE PlaceValue(_, _)
PlaceValue(s, base) ==
    IF s = <<>> THEN 0
    ELSE s[Len(s)] + base * PlaceValue(SubSeq(s, 1, Len(s) - 1), base)

IsBinaryKey(k) == k.is_str => (Len(k.chars) > 0 /\ \A i \in 1..Len(k.chars) : k.chars[i] \in {0, 1})
IsIndexKey(k) == k.is_str => (Len(k.chars) > 0 /\ \A i \in 1..Len(k.chars) : k.chars[i] \in 0..9)
KeyValue(k) == IF k.is_str THEN PlaceValue(k.chars, 2) ELSE k.num
IndexValue(k) == IF k.is_str THEN PlaceValue(k.chars, 10) ELSE k.num

\* the payload with its JSON strings replaced by the mappings they parse to
AsMapping(p) ==
    [p EXCEPT !.counts_is_str = FALSE, !.counts = json_loads(p.counts),
              !.divided_is_str = FALSE,
              !.divided_counts = IF p.divided_is_str THEN LoadDivided(p) ELSE p.divided_counts]

\* every key of the payload is a bit string or an int, every index a decimal
\* string or an int
Decodable(m) ==
    /\ m.has_counts
    /\ \A i \in 1..Len(m.counts) : IsBinaryKey(m.counts[i].key)
    /\ \A i \in 1..Len(m.divided_counts) :
          /\ IsIndexKey(m.divided_counts[i].index)
          /\ \A j \in 1..Len(m.divided_counts[i].items) :
                IsBinaryKey(m.divided_counts[i].items[j].key)

KeyValues(items) == {KeyValue(items[i].key) : i \in 1..Len(items)}
\* every entry of the mapping is found, with its count, under its decoded key
KeepsCounts(items, c) ==
    /\ DOMAIN c = KeyValues(items)
    /\ \A i \in 1..Len(items) : c[KeyValue(items[i].key)] = items[i].count
\* the decoded keys hold the count of the last entry that decodes to them
KeepsLastCounts(items, c) ==
    /\ DOMAIN c = KeyValues(items)
    /\ \A i \in 1..Len(items) :
          (\A j \in (i + 1)..Len(items) : KeyValue(items[j].key) # KeyValue(items[i].key))
              => c[KeyValue(items[i].key)] = items[i].count

IndexValues(div) == {IndexValue(div[i].index) : i \in 1..Len(div)}

\* C6 as claimed: every counts key that is a binary string is decoded base 2, an
\* int key is kept, and each entry keeps its count; counts given as a JSON string
\* decode as the parsed mapping does; each entry of divided_counts is decoded the
\* same way under its index converted to an int.
C6_EveryEntryKeepsItsCount ==
    LET m == AsMapping(payload)
        d == decoded.value
    IN  (decoded.done /\ Decodable(m)) =>
            /\ d.err = ""
            /\ d = SamplingDecode(m)
            /\ KeepsCounts(m.counts, d.counts)
            /\ d.has_divided = (m.divided_counts # <<>>)
            /\ d.has_divided =>
                  /\ DOMAIN d.divided_counts = IndexValues(m.divided_counts)
                  /\ \A i \in 1..Len(m.divided_counts) :
                        KeepsCounts(m.divided_counts[i].items,
                                    d.divided_counts[IndexValue(m.divided_counts[i].index)])

\* C6 as the code has it: the decoded keys are the base-2 values of the string keys
\* and the int keys themselves; an entry keeps its count unless a later entry of
\* the mapping decodes to the same integer, and then the later entry's count is
\* kept; counts given as a JSON string decode as the parsed mapping does; the
\* entries of divided_counts are decoded the same way under their indexes
\* converted to ints, a later entry with the same index replacing an earlier one.
C6_LastEntryKeepsItsCount ==
    LET m == AsMapping(payload)
        d == decoded.value
        div == m.divided_counts
    IN  (decoded.done /\ Decodable(m)) =>
            /\ d.err = ""
            /\ d = SamplingDecode(m)
            /\ KeepsLastCounts(m.counts, d.counts)
            /\ d.has_divided = (div # <<>>)
            /\ d.has_divided =>
                  /\ DOMAIN d.divided_counts = IndexValues(div)
                  /\ \A i \in 1..Len(div) :
                        (\A j \in (i + 1)..Len(div) :
                            IndexValue(div[j].index) # IndexValue(div[i].index))
                          => KeepsLastCounts(div[i].items,
                                             d.divided_counts[IndexValue(div[i].index)])

\* counts {"10": 1} given as a JSON string, and a breakdown {"10": {"10": 1, 1: 2}},
\* decoded to {2: 1} and {10: {2: 1, 1: 2}}
C6_Witness ==
    /\ decoded.done
    /\ payload.counts_is_str
    /\ payload.counts = <<Item(StrKey(<<1, 0>>), 1)>>
    /\ payload.divided_counts =
          <<[index |-> StrKey(<<1, 0>>),
             items |-> <<Item(StrKey(<<1, 0>>), 1), Item(IntKey(1), 2)>>]>>
    /\ decoded.value.err = ""
    /\ decoded.value.counts = (2 :> 1)
    /\ decoded.value.has_divided
    /\ decoded.value.divided_counts = (10 :> (1 :> 2 @@ 2 :> 1))

\* C11: a cancel() whose cancel request is rejected raises BackendError, sends no
\* get_job request and leaves the record of the job object as it was; a cancel()
\* whose cancel request went through and whose refresh failed raises BackendError
\* too.
C11_CancelFailures ==
    [][Starts("cancel") =>
          /\ ~reqs'[1].ok =>
                /\ ret'.out = "BackendError"
                /\ ret'.msg = "To cancel job is failed."
                /\ Len(reqs') = 1
                /\ fetched' = NotFetched
                /\ job' = job
          /\ (reqs'[1].ok /\ fetched'.state = "failed") =>
                /\ ret'.out = "BackendError"
                /\ ret'.msg = "To cancel job is failed."
                /\ job' = job]_vars

\* the cancel request for a job that is already final was rejected
C11_Witness ==
    /\ Ended("cancel")
    /\ job.status \in JOB_FINAL_STATUS
    /\ Len(reqs) = 1
    /\ ~reqs[1].ok
    /\ ret.out = "BackendError"

\* the current or last call polls: it is wait_for_completion, or a result() that
\* called it
Polls == ret.op \in {"wait_for_completion", "result"} /\ Len(reqs) >= 1

\* C19: wait_for_completion makes its first refresh at once, with no sleep before
\* it; every later refresh follows one time.sleep of the call's `wait` seconds,
\* the same for every round; a call that has made k refreshes has slept k-1
\* times (k times while it sleeps before the next refresh); and a record is
\* returned after a non-final first refresh only once `wait` seconds have passed.
C19_FixedIntervalPolling ==
    /\ [][Starts("wait_for_completion") =>
            (Len(reqs') = 1 /\ naps' = 0 /\ elapsed_time' = 0)]_vars
    /\ []((Polls /\ Len(reqs) < MaxReqs) =>
            naps = IF pc = "sleep" THEN Len(reqs) ELSE Len(reqs) - 1)
    /\ []((Polls /\ Len(reqs) = MaxReqs) => naps >= MaxReqs - 1)
    /\ [][(Tests /\ pc' = "sleep") => (call' = call /\ slept' = 0)]_vars
    /\ [][Wakes => (slept = call.wait /\ (pc' = "check" => call' = call))]_vars
    /\ [][(Tests /\ ret'.out = "job" /\ naps >= 1) => elapsed_time >= call.wait]_vars

\* a wait_for_completion with wait = 1 about to return the record of its second
\* refresh, after one sleep
C19_Witness ==
    /\ pc = "check"
    /\ call.op = "wait_for_completion"
    /\ call.wait = 1
    /\ IsFinal(job.status)
    /\ Len(reqs) = 2
    /\ naps = 1
    /\ elapsed_time >= 1

\* C20: a refresh that fails inside wait_for_completion, or inside a result() that
\* polls, ends the call at once with BackendError and leaves the record of the job
\* object as it was; the failed get_job request is the last request of the call;
\* and while the call polls the job object holds the record of its last
\* successful refresh.
C20_NoRetryAfterFailedRefresh ==
    /\ [][((Starts("wait_for_completion") \/ Starts("result") \/ Wakes)
            /\ fetched'.state = "failed") =>
              /\ pc' = "idle"
              /\ call' = NoCall
              /\ ret'.out = "BackendError"
              /\ ret'.msg = "To refresh job is failed."
              /\ job' = job]_vars
    /\ [](Polls =>
            \A i \in 1..Len(reqs) :
                ~reqs[i].ok => (i = Len(reqs) /\ pc = "idle" /\ ret.out = "BackendError"))
    /\ [](pc \in {"check", "sleep"} => (fetched.state = "ok" /\ job = fetched.job))

\* the second refresh of a wait_for_completion failed
C20_Witness ==
    /\ Ended("wait_for_completion")
    /\ ret.out = "BackendError"
    /\ Len(reqs) = 2
    /\ reqs[1].ok
    /\ ~reqs[2].ok
    /\ pc = "idle"

(***************************************************************************)
(* Claims about submission, checked under SpecSubmit.                      *)
(***************************************************************************)
SubmitFailed(backend) ==
    /\ sub_pc = "done"
    /\ sub_ret.out = "BackendError"
    /\ sub_ret.msg = IF backend = "sampling"
                     THEN "To execute sampling on OQTOPUS Cloud is failed."
                     ELSE "To execute estimation on OQTOPUS Cloud is failed."
ShotsRejected ==
    /\ sub_ret.out = "ValueError"
    /\ sub_ret.msg = "shots should be a positive integer."

C13_ShotsValidated ==
    sub_pc # "idle" =>
        /\ sub_call.shots <= 0 =>
              (sub_pc = "done" /\ ShotsRejected /\ sub_reqs = <<>>)
        /\ sub_call.shots >= 1 => ~ShotsRejected

\* estimate with shots = 0
C13_Witness ==
    /\ sub_pc = "done"
    /\ sub_call.entry = "estimate"
    /\ sub_call.shots = 0
    /\ ShotsRejected
    /\ sub_reqs = <<>>

\* C14: the request sample_qasm submits carries job_type "sampling" for a single
\* program text and "multi_manual" for a list when no job_type was given, and
\* the given job_type, whatever the program is, when one was given.
C14_JobTypeInferred ==
    \A i \in 1..Len(sub_reqs) :
        (sub_call.entry = "sample_qasm" /\ sub_reqs[i].api = "submit_job") =>
            sub_reqs[i].body.job_type =
                IF sub_call.job_type # NoJobType THEN sub_call.job_type
                ELSE IF sub_call.program.is_list THEN "multi_manual"
                ELSE "sampling"

\* a single program text submitted with the job_type given as "multi_manual"
C14_Witness ==
    /\ sub_call.entry = "sample_qasm"
    /\ sub_call.job_type = "multi_manual"
    /\ ~sub_call.program.is_list
    /\ Len(sub_reqs) >= 1
    /\ sub_reqs[1].api = "submit_job"
    /\ sub_reqs[1].body.job_type = "multi_manual"

HasImaginary(operator) ==
    \E i \in 1..Len(operator) : operator[i].coeff.is_complex /\ operator[i].coeff.im # 0

\* C15: an estimation call whose operator has a complex coefficient with a
\* non-zero imaginary part ends with ValueError and has sent nothing; otherwise
\* the operator of the request has one item per term of the operator, in order,
\* made of the label of the term and the real part of its coefficient.
C15_ComplexCoefficients ==
    (sub_pc # "idle" /\ sub_call.backend = "estimation") =>
        /\ HasImaginary(sub_call.operator) =>
              (sub_pc = "done" /\ sub_ret.out = "ValueError" /\ sub_reqs = <<>>)
        /\ (~HasImaginary(sub_call.operator) /\ sub_call.shots >= 1) =>
              /\ sub_ret.out # "ValueError"
              /\ Len(sub_call.body.operator) = Len(sub_call.operator)
              /\ \A i \in 1..Len(sub_call.operator) :
                    sub_call.body.operator[i] =
                        [pauli |-> sub_call.operator[i].pauli,
                         coeff |-> sub_call.operator[i].coeff.re]
              /\ \A i \in 1..Len(sub_reqs) :
                    sub_reqs[i].api = "submit_job" => sub_reqs[i].body = sub_call.body

\* estimate_qasm with shots = 1 and the operator {Z0: 2+0j, I: 1+2j}
C15_Witness ==
    /\ sub_pc = "done"
    /\ sub_call.entry = "estimate_qasm"
    /\ sub_call.shots = 1
    /\ sub_call.operator = <<Term("Z0", Complex(2, 0)), Term("I", Complex(1, 2))>>
    /\ sub_ret.out = "ValueError"
    /\ sub_ret.msg = "Complex numbers are not supported in coefficient"
    /\ sub_reqs = <<>>

(***************************************************************************)
(* Claims about OqtopusStorage.                                            *)
(***************************************************************************)
Finished(op) == st_ret.op = op /\ st_ret.out # ""
Is2xx(status_code) == 200 <= status_code /\ status_code < 300
Answered2xx(resp) == resp.state = "answered" /\ Is2xx(resp.status_code)
\* the bytes are the text of a JSON document
ParsesAsJson(content) == content.utf8 /\ json_loads_text(content.text).type # ""
OneEntry(body) == body.is_zip /\ Len(body.entries) = 1
\* the response download is said to need: 2xx, a zip archive, one entry, JSON,
\* an object at the root
GoodDownload(resp) ==
    /\ Answered2xx(resp)
    /\ OneEntry(resp.content)
    /\ ParsesAsJson(resp.content.entries[1].content)
    /\ json_loads_text(resp.content.entries[1].content.text).type = "dict"

\* the parts of C16, one by one
DownloadReturnsOnlyIfGood ==
    Finished("download") /\ st_ret.out = "returned" => GoodDownload(st_call.response)
DownloadReturnsIfGood ==
    Finished("download") /\ GoodDownload(st_call.response) => st_ret.out = "returned"
DownloadFailsWithStorageError ==
    Finished("download") /\ ~GoodDownload(st_call.response)
        => st_ret.out = "raised" /\ st_ret.error = "OqtopusStorageError"
DownloadMessagesTellTheCause ==
    Finished("download") /\ Answered2xx(st_call.response) =>
        LET body == st_call.response.content
        IN  /\ ~body.is_zip => st_ret.msg = "Invalid ZIP file"
            /\ OneEntry(body) /\ ~ParsesAsJson(body.entries[1].content)
                  => st_ret.msg = "Invalid JSON in ZIP file"
            /\ OneEntry(body) /\ ParsesAsJson(body.entries[1].content)
                              /\ json_loads_text(body.entries[1].content.text).type # "dict"
                  => st_ret.msg = "Expected JSON root to be an object (dict) but got"

\* C16: download returns a value only if the response is 2xx, its body is a zip
\* archive with exactly one entry, the entry parses as JSON and the root is an
\* object; in every other case it raises OqtopusStorageError, and the message
\* tells an invalid zip, invalid JSON and a wrong JSON shape apart.
C16_DownloadValueOrStorageError ==
    /\ DownloadReturnsOnlyIfGood
    /\ DownloadReturnsIfGood
    /\ DownloadFailsWithStorageError
    /\ DownloadMessagesTellTheCause
\* the failing input: a 2xx response whose archive has one entry holding bytes
\* that are not UTF-8
C16_Witness ==
    /\ Finished("download")
    /\ Answered2xx(st_call.response)
    /\ OneEntry(st_call.response.content)
    /\ ~st_call.response.content.entries[1].content.utf8
    /\ st_ret.out = "raised"
    /\ st_ret.error = "UnicodeDecodeError"

\* a JSON object: its names are strings
IsJsonObject(d) == \A i \in 1..Len(d) : d[i].key.is_str
\* the download was answered 2xx with the archive the upload posted
ServedBack ==
    /\ Finished("download")
    /\ Len(st_reqs) = 2
    /\ Answered2xx(st_call.response)
    /\ st_call.response.content = st_reqs[1].file.content

\* C17: for every JSON object d, when the archive that upload(presigned, d)
\* posted is served back as the body of a 2xx response, download returns a value
\* equal to d.
C17_RoundTrip ==
    ServedBack /\ IsJsonObject(st_call.data)
        => /\ st_ret.out = "returned"
           /\ Counter(st_ret.value) = Counter(st_call.data)
C17_Witness ==
    /\ ServedBack
    /\ IsJsonObject(st_call.data)
    /\ Len(st_call.data) >= 2
    /\ st_ret.out = "returned"
    /\ st_ret.value = st_call.data

\* the parts of C18, one by one
UploadPostsOnce ==
    Finished("upload") => Len(st_reqs) = 1 /\ st_reqs[1].method = "POST"
UploadNamesTheEntry ==
    Finished("upload") =>
        LET file == st_reqs[1].file
            name == st_call.fields.key[Len(st_call.fields.key)]
        IN  /\ file.filename = name
            /\ OneEntry(file.content)
            /\ file.content.entries[1].name = PathStem(name) \o <<"json">>
UploadRenamesTheFields ==
    Finished("upload") =>
        /\ DOMAIN st_reqs[1].data = {"key", "x-amz-security-token", "AWSAccessKeyId",
                                     "policy", "signature"}
        /\ \A k \in DOMAIN st_call.fields :
              st_reqs[1].data[attribute_map[k]] = st_call.fields[k]
UploadFailsWithStorageError ==
    Finished("upload") /\ ~Answered2xx(st_call.response)
        => st_ret.out = "raised" /\ st_ret.error = "OqtopusStorageError"

\* C18: upload posts exactly one request; its file part is a zip archive with
\* exactly one entry named <stem>.json, the stem being that of the file name of
\* the presigned key; its form fields are the presigned fields under their wire
\* names with their values unchanged; a response that is not 2xx, or a transport
\* error, makes upload raise OqtopusStorageError.
C18_UploadPostsArchive ==
    /\ UploadPostsOnce
    /\ UploadNamesTheEntry
    /\ UploadRenamesTheFields
    /\ UploadFailsWithStorageError
\* the failing input: the POST is answered 301 and upload returns
C18_Witness ==
    /\ Finished("upload")
    /\ st_call.response = Response("answered", 301, NotZip)
    /\ st_ret.out = "returned"

(***************************************************************************)
(* Further claims about result(), the decoding and wait_for_completion.    *)
(***************************************************************************)
\* C21: result() called on a job object whose status is already final sends no
\* request, sleeps not at all and leaves the record of the job object as it
\* was; called on a job that is not final it goes through wait_for_completion,
\* whose first step is a refresh.
C21_ResultPollsOnlyWhenNeeded ==
    [][Starts("result") =>
          IF job.status \in JOB_FINAL_STATUS
          THEN /\ reqs' = <<>>
               /\ naps' = 0
               /\ job' = job
               /\ pc' = "idle"
               /\ ret'.out # ""
          ELSE /\ Len(reqs') = 1
               /\ reqs'[1] = Request("get_job", job.job_id, fetched'.state = "ok")
               /\ fetched'.state = "ok" => job' = fetched'.job /\ pc' = "check"]_vars

\* result() returned the decoded counts of a job object that held a succeeded
\* record, without a request
C21_Witness ==
    /\ Ended("result")
    /\ ret.out = "result"
    /\ reqs = <<>>
    /\ naps = 0
    /\ job.status = "succeeded"

\* C22: OqtopusSamplingResult(result) on a payload without the key "counts", the
\* empty payload included, raises ValueError("'counts' does not exist in
\* result"); on a payload with counts it succeeds and its counts are exactly the
\* entries given.
C22_ResultConstructor ==
    decoded.done =>
        IF ~payload.has_counts
        THEN /\ decoded.value.err = "ValueError"
             /\ decoded.msg = "'counts' does not exist in result"
        ELSE /\ decoded.value.err = ""
             /\ DOMAIN decoded.value.counts =
                    {payload.counts[i].key : i \in 1..Len(payload.counts)}
             /\ \A i \in 1..Len(payload.counts) :
                    decoded.value.counts[payload.counts[i].key] = payload.counts[i].count

\* the constructor raised on the empty payload
C22_Witness ==
    /\ decoded.done
    /\ payload = NoPayload
    /\ decoded.value.err = "ValueError"
    /\ decoded.msg = "'counts' does not exist in result"

\* C23: result() on a succeeded sampling job whose payload has no counts raises
\* ValueError, the error of the result constructor, and no other error.
C23_ResultWithoutCountsRaisesValueError ==
    (decoded.done /\ ~payload.has_counts) => decoded.value.err = "ValueError"

\* the failing input: the decoding of a payload without counts raised KeyError
C23_Witness ==
    /\ decoded.done
    /\ ~payload.has_counts
    /\ decoded.value.err = "KeyError"

\* every key is a string of w binary digits
FixedWidth(items, w) ==
    \A i \in 1..Len(items) :
        /\ items[i].key.is_str
        /\ Len(items[i].key.chars) = w
        /\ \A n \in 1..w : items[i].key.chars[n] \in {0, 1}
RECURSIVE TotalOfItems(_)
TotalOfItems(items) ==
    IF items = <<>> THEN 0 ELSE Head(items).count + TotalOfItems(Tail(items))
RECURSIVE TotalOfCounter(_)
TotalOfCounter(c) ==
    IF DOMAIN c = {} THEN 0
    ELSE LET k == CHOOSE x \in DOMAIN c : TRUE
         IN  c[k] + TotalOfCounter([x \in DOMAIN c \ {k} |-> c[x]])

\* C24: when every key of counts is a binary string of one width w (and the
\* breakdown, if any, can be decoded), the keys decode to distinct integers of
\* 0..2^w-1, each the base-2 value of its key: the
\* decoded counts have as many entries as the mapping and the same total; the
\* payload of the tests decodes to {0: 490, 1: 10, 2: 20, 3: 480}.
C24_FixedWidthDecodingInjective ==
    LET m == AsMapping(payload)
        d == decoded.value
    IN  \A w \in 1..MaxBits :
            (decoded.done /\ Decodable(m) /\ FixedWidth(m.counts, w)) =>
                /\ d.err = ""
                /\ DOMAIN d.counts \subseteq 0..(2^w - 1)
                /\ \A i, j \in 1..Len(m.counts) :
                       i # j => PlaceValue(m.counts[i].key.chars, 2)
                                   # PlaceValue(m.counts[j].key.chars, 2)
                /\ \A i \in 1..Len(m.counts) :
                       d.counts[PlaceValue(m.counts[i].key.chars, 2)] = m.counts[i].count
                /\ Cardinality(DOMAIN d.counts) = Len(m.counts)
                /\ TotalOfCounter(d.counts) = TotalOfItems(m.counts)
                /\ payload = TestPayload =>
                       d.counts = (0 :> 490 @@ 1 :> 10 @@ 2 :> 20 @@ 3 :> 480)

\* the four keys of width 2 of the tests' payload were decoded
C24_Witness ==
    /\ decoded.done
    /\ payload = TestPayload
    /\ FixedWidth(payload.counts, 2)
    /\ Cardinality(DOMAIN decoded.value.counts) = 4
    /\ TotalOfCounter(decoded.value.counts) = 1000

(***************************************************************************)
(* Further claims about the submission and the retrieval of jobs            *)
(***************************************************************************)
\* C25: in a sample call that builds a request, each submitted text is the
\* converted text of its circuit: unchanged when that text holds a measure
\* statement; otherwise with the declaration of a bit register of the circuit's
\* qubit_count put right after the end of the first qubit declaration statement
\* and the measure-all statement put at the end.  Adding the measurement to a
\* submitted text again changes nothing.
C25_MeasurementSynthesis ==
    (sub_call.entry = "sample" /\ sub_call.body # NoBody) =>
        /\ Len(sub_call.body.program.texts) = Len(sub_call.circuits.texts)
        /\ \A i \in 1..Len(sub_call.circuits.texts) :
             LET c == sub_call.circuits.texts[i]
                 original == convert_to_qasm_str(c)
                 submitted == sub_call.body.program.texts[i]
                 qubit == CHOOSE k \in 1..Len(original) :
                              /\ original[k].t = "qubit"
                              /\ \A j \in 1..(k - 1) : original[j].t # "qubit"
                 stop == CHOOSE k \in qubit..Len(original) :
                              /\ original[k].t = ";"
                              /\ \A j \in qubit..(k - 1) : original[j].t # ";"
             IN  /\ IF c.measured
                    THEN submitted = original
                    ELSE submitted =
                             SubSeq(original, 1, stop)
                             \o <<[t |-> "bit", n |-> c.qubit_count], [t |-> ";", n |-> 0]>>
                             \o SubSeq(original, stop + 1, Len(original))
                             \o <<[t |-> "c = measure q", n |-> 0], [t |-> ";", n |-> 0]>>
                 /\ with_measure(submitted, c.qubit_count) = submitted

\* a list of a circuit without a measurement and a circuit with one was
\* submitted by sample
C25_Witness ==
    /\ sub_call.entry = "sample"
    /\ \E r \in 1..Len(sub_reqs) : sub_reqs[r].api = "submit_job" /\ sub_reqs[r].ok
    /\ Len(sub_call.circuits.texts) = 2
    /\ ~sub_call.circuits.texts[1].measured
    /\ sub_call.circuits.texts[1].qubit_count = 1
    /\ sub_call.circuits.texts[2].measured
    /\ Len(sub_call.body.program.texts[1]) = 10

C27_FinalStatusWinsOverDeadline ==
    /\ []((Ended("wait_for_completion") /\ ret.out = "None") =>
              /\ fetched.state = "ok"
              /\ fetched.job.status \notin {"succeeded", "failed", "cancelled"})
    /\ []((call.op = "wait_for_completion" /\ call.timeout = 0) =>
              /\ pc = "check"
              /\ Len(reqs) = 1
              /\ naps = 0)
    /\ [][/\ Starts("wait_for_completion") =>
                 /\ Len(reqs') = 1
                 /\ reqs'[1].api = "get_job"
          /\ (Tests /\ call.op = "wait_for_completion"
                /\ job.status \in {"succeeded", "failed", "cancelled"}) =>
                 /\ ret'.out = "job"
                 /\ ret'.job = fetched.job
                 /\ pc' = "idle"
          /\ (Tests /\ call.op = "wait_for_completion" /\ call.timeout = 0) =>
                 /\ pc' = "idle"
                 /\ ret'.out \in {"job", "None"}
                 /\ Len(reqs') = 1]_vars

\* a refresh made after a sleep came back past the deadline with a final status,
\* and the loop test is about to be made
C27_Witness ==
    /\ pc = "check"
    /\ call.op = "wait_for_completion"
    /\ call.timeout = 1
    /\ elapsed_time > call.timeout
    /\ Len(reqs) = 2
    /\ fetched.state = "ok"
    /\ job.status = "succeeded"

\* C28: under a running client, a wait_for_completion without a timeout returns
\* when the service cooperates: if no refresh ever fails and from some time on
\* every refresh shows a final status, the call ends, returning the final record
\* it fetched.  And it returns only then: a call without a timeout ends either
\* with a record whose status is final, just fetched, or with the BackendError
\* of a refresh that failed; as long as the refreshes go through and show a
\* status that is not final it goes on.
C28_NoTimeoutEndsWhenServiceCooperates ==
    /\ ([](fetched.state # "failed")
          /\ <>[](fetched.state = "ok"
                    /\ fetched.job.status \in {"succeeded", "failed", "cancelled"}))
        => ((pc # "idle" /\ call.op = "wait_for_completion" /\ call.timeout = NoTimeout)
              ~> (/\ Ended("wait_for_completion")
                  /\ ret.out = "job"
                  /\ ret.job = fetched.job
                  /\ ret.job.status \in {"succeeded", "failed", "cancelled"}))
    /\ [][(pc # "idle" /\ call.op = "wait_for_completion" /\ call.timeout = NoTimeout) =>
             /\ (fetched'.state = "ok"
                   /\ fetched'.job.status \notin {"succeeded", "failed", "cancelled"}) =>
                    pc' # "idle"
             /\ pc' = "idle" =>
                    \/ /\ ret'.out = "job"
                       /\ fetched'.state = "ok"
                       /\ ret'.job = fetched'.job
                       /\ ret'.job.status \in {"succeeded", "failed", "cancelled"}
                    \/ /\ ret'.out = "BackendError"
                       /\ fetched'.state = "failed"]_vars

\* a wait_for_completion without a timeout has polled as often and waited as long
\* as the model tells apart, and its last refresh shows a final status at last
C28_Witness ==
    /\ pc = "check"
    /\ call.op = "wait_for_completion"
    /\ call.timeout = NoTimeout
    /\ elapsed_time = MaxElapsed
    /\ Len(reqs) = MaxReqs
    /\ naps = MaxReqs
    /\ \A i \in 1..Len(reqs) : reqs[i].ok
    /\ fetched.job.status = "succeeded"

\* C29: every request a sample_qasm call submits carries its program as a list
\* of texts: the list that was given, or the one-element list of the single text
\* that was given, whether the job_type was given or not.
C29_ProgramSubmittedAsList ==
    \A i \in 1..Len(sub_reqs) :
        (sub_call.backend = "sampling" /\ sub_reqs[i].api = "submit_job") =>
            /\ sub_reqs[i].body.program.is_list
            /\ sub_reqs[i].body.program.texts = sub_call.program.texts

\* a single program text was submitted by sample_qasm with the job_type given as
\* "sampling", and the request carries the text itself, not a list
C29_Witness ==
    /\ sub_call.entry = "sample_qasm"
    /\ sub_call.job_type = "sampling"
    /\ ~sub_call.program.is_list
    /\ Len(sub_reqs) >= 1
    /\ sub_reqs[1].api = "submit_job"
    /\ sub_reqs[1].ok
    /\ ~sub_reqs[1].body.program.is_list
    /\ Len(sub_reqs[1].body.program.texts) = 1

\* C30: a job that sample or sample_qasm submitted to the service with job_type
\* "sampling", or with the job_type "multi_manual" inferred from a list of
\* programs, is obtained again by retrieve_job of its id as a sampling job object
\* that wraps the same record, when the service answers the retrieval with the
\* record it created.
C30_SubmitRetrieveRoundTrip ==
    (/\ retrieved.state = "done"
     /\ sub_pc = "done"
     /\ sub_call.entry \in {"sample", "sample_qasm"}
     /\ ~sub_call.sse
     /\ sub_ret.out = "job"
     /\ \/ sub_call.body.job_type = "sampling"
        \/ sub_call.body.job_type = "multi_manual" /\ sub_call.job_type = NoJobType
     /\ retrieved.job_id = sub_ret.job.job_id
     /\ retrieved.response.state = "ok"
     /\ retrieved.response.valid
     /\ retrieved.response.job_type = sub_call.body.job_type
     /\ retrieved.response.job = sub_ret.job) =>
        /\ retrieved.ret.out = "job"
        /\ retrieved.ret.kind = "sampling"
        /\ retrieved.ret.job = sub_ret.job

\* a list of two programs was submitted by sample_qasm as a multi_manual job, the
\* service answered the retrieval of its id with the record it created, and
\* retrieve_job raised BackendError
C30_Witness ==
    /\ retrieved.state = "done"
    /\ sub_pc = "done"
    /\ sub_call.entry = "sample_qasm"
    /\ sub_call.program.is_list
    /\ Len(sub_call.program.texts) = 2
    /\ sub_call.job_type = NoJobType
    /\ sub_ret.out = "job"
    /\ Len(sub_reqs) = 2
    /\ sub_reqs[1].body.job_type = "multi_manual"
    /\ retrieved.job_id = sub_ret.job.job_id
    /\ retrieved.response.job_type = "multi_manual"
    /\ retrieved.response.job = sub_ret.job
    /\ retrieved.ret.out = "BackendError"
    /\ retrieved.ret.msg = "Unknown job_type"

=============================================================================
